---- MODULE Spec2Model ----
(***************************************************************************)
(* A byte-level model of the CGFX container of ctr-bcres: the serializer   *)
(* (CgfxContainer::to_buffer_debug and the writers it calls), the parser   *)
(* (CgfxContainer::new and the readers it calls), from_single_texture and  *)
(* the low-level read helpers.                                             *)
(*                                                                         *)
(* A buffer is a sequence of bytes 0..255; the byte at file offset o is    *)
(* buf[o + 1].  A Rust Option is the record None or Some(x); a Rust        *)
(* Result is Ok(x) or one of Err / Panic (an assert!, unwrap or todo!).    *)
(*                                                                         *)
(* TLC's integers are 32 bits wide, so a 32-bit word of the file is kept   *)
(* as the integer of -2^31..2^31-1 congruent to it modulo 2^32: the word   *)
(* 0xFFFFFFFF is -1.  That integer is what a read as i32 yields; a read    *)
(* as u32 of a word >= 2^31 is used only as an offset, a length or a       *)
(* count, and is then an offset past the end of every buffer (Unsigned).   *)
(***************************************************************************)
EXTENDS Integers, Sequences, FiniteSets, TLC

VARIABLES
    file,     \* the input buffer handed to CgfxContainer::new
    fileKind, \* what the input buffer is (a label of the fixture)
    ctr,      \* Result<CgfxContainer>: the container in memory
    origin,   \* which operation produced ctr
    args,     \* the arguments of from_single_texture that produced ctr
    out,      \* Result<Vec<u8>> of the last to_buffer call
    rd,       \* the state of the low-level reader
    base,     \* the last to_buffer_debug call: its reference buffer and its result
    wr        \* the state of the dictionary writer

vars == <<file, fileKind, ctr, origin, args, out, rd, base, wr>>

---------------------------------------------------------------------------
(* Bounds of the model.                                                    *)

\* longest dictionary / object name that is tried
MaxNameLen == 84
\* up to this many image bytes per texture
MaxImageLen == 2
\* largest offset at which the low-level reader is placed
MaxReadPos == 3

\* the largest count of a list
MaxCount == 2

\* the number of index bytes behind a FaceDescriptor
MaxIndexBytes == 4

---------------------------------------------------------------------------
(* Option and Result.                                                      *)

None == [some |-> FALSE]
Some(x) == [some |-> TRUE, v |-> x]
Ok(x) == [ok |-> TRUE, v |-> x]
Err == [ok |-> FALSE, how |-> "error"]
Panic == [ok |-> FALSE, how |-> "panic"]
NoResult == [ok |-> FALSE, how |-> "none"]

---------------------------------------------------------------------------
(* Little-endian integers and buffers.                                     *)

U16LE(v) == <<v % 256, (v \div 256) % 256>>

U32LE(v) == <<v % 256, (v \div 256) % 256, (v \div 65536) % 256, (v \div 16777216) % 256>>

\* the 32-bit word stored at file offset off (the caller checks off + 4 <= Len(buf))
U32At(buf, off) ==
    buf[off + 1] + 256 * buf[off + 2] + 65536 * buf[off + 3]
        + 16777216 * (IF buf[off + 4] >= 128 THEN buf[off + 4] - 256 ELSE buf[off + 4])

\* an offset past the end of every buffer of the model
Beyond == 1073741823 + 1

\* a word read as u32 and used as an offset, a length or a count
Unsigned(w) == IF w < 0 THEN Beyond ELSE w

\* the word 0xFFFFFFFF
AllOnes == 0 - 1

U16At(buf, off) == buf[off + 1] + 256 * buf[off + 2]

Zeros(n) == [i \in 1..n |-> 0]

\* byte strings of the magic numbers
CGFX == <<67, 71, 70, 88>>
DATA == <<68, 65, 84, 65>>
IMAG == <<73, 77, 65, 71>>
DICT == <<68, 73, 67, 84>>

\* write_at_pointer: overwrite the four bytes at pointer, cursor unchanged
write_at_pointer(buf, pointer, value) ==
    [i \in 1..Len(buf) |->
        IF i > pointer /\ i <= pointer + 4 THEN U32LE(value)[i - pointer] ELSE buf[i]]

---------------------------------------------------------------------------
(* Strings as byte sequences: str::contains and str::find.                 *)

OccursAt(hay, needle, i) ==
    /\ i + Len(needle) <= Len(hay)
    /\ \A k \in 1..Len(needle) : hay[i + k] = needle[k]

\* the 0-based indices at which needle occurs in hay
Occurrences(hay, needle) == {i \in 0..Len(hay) : OccursAt(hay, needle, i)}

Contains(hay, needle) == Occurrences(hay, needle) # {}

\* str::find: the first occurrence
Find(hay, needle) ==
    LET occ == Occurrences(hay, needle)
    IN  IF occ = {} THEN None ELSE Some(CHOOSE i \in occ : \A j \in occ : i <= j)

---------------------------------------------------------------------------
(* WriteContext and the writer.  The writer's cursor is always at the end  *)
(* of out: write_at_pointer seeks back to where it was.                    *)

\* a HashMap as a set of <<key, value>> pairs with one pair per key
MapInsert(m, k, v) == {e \in m : e[1] # k} \cup {<<k, v>>}

NewWriter ==
    [ out |-> <<>>, st |-> "ok",
      string_section |-> <<>>, string_references |-> {},
      image_section |-> <<>>, image_references |-> {} ]

Put(w, bytes) == [w EXCEPT !.out = @ \o bytes]

Fail(w, how) == [w EXCEPT !.st = how]

\* add_string without the early exit
add_stringMutAlways(w, string) ==
    [w EXCEPT !.string_section = @ \o string \o <<0>>]

\* WriteContext::add_string
add_string(w, string) ==
    IF Contains(w.string_section, string)
    THEN w
    ELSE [w EXCEPT !.string_section = @ \o string \o <<0>>]

add_string_reference(w, origin_, target_string) ==
    [w EXCEPT !.string_references = MapInsert(@, origin_, target_string)]

append_to_image_section(w, content) ==
    [w EXCEPT !.image_section = @ \o content]

\* an image reference that always points at the start of the image section
add_image_reference_to_current_endMutStart(w, origin_) ==
    [w EXCEPT !.image_references = MapInsert(@, origin_, 0)]

add_image_reference_to_current_end(w, origin_) ==
    [w EXCEPT !.image_references = MapInsert(@, origin_, Len(w.image_section))]

---------------------------------------------------------------------------
(* Texture writer (texture.rs).                                            *)

TexImage == 536870929 \* 0x20000011
TexCube == 536870921  \* 0x20000009

\* CgfxObjectHeader as binrw writes it: the name is a zero placeholder
ObjectHeaderBytes(h) ==
    h.magic \o U32LE(h.revision) \o U32LE(0) \o U32LE(h.metadata_count)
        \o U32LE(IF h.metadata_pointer.some THEN h.metadata_pointer.v ELSE 0)

\* CgfxTextureCommon as binrw writes it: the object header and eight words
TextureCommonBytes(c) ==
    ObjectHeaderBytes(c.cgfx_object_header)
        \o U32LE(c.height) \o U32LE(c.width) \o U32LE(c.gl_format) \o U32LE(c.gl_type)
        \o U32LE(c.mipmap_size) \o U32LE(c.texture_obj) \o U32LE(c.location_flag)
        \o U32LE(c.texture_format)

\* ImageData as binrw writes it: image_bytes ignored, buffer_pointer zeroed
ImageDataBytes(d) ==
    U32LE(d.height) \o U32LE(d.width) \o U32LE(d.buffer_length) \o U32LE(0)
        \o U32LE(d.dynamic_alloc) \o U32LE(d.bits_per_pixel) \o U32LE(d.location_ptr)
        \o U32LE(d.memory_area)

\* Option<ImageData>::write: nothing for None
OptionImageBytes(image) == IF image.some THEN ImageDataBytes(image.v) ELSE <<>>

\* CgfxTexture::to_writer
TextureToWriter(w, t) ==
    LET w1 == Put(w, U32LE(IF t.kind = "Cube" THEN TexCube ELSE TexImage))
        common_offset == Len(w1.out)
        name_offset == common_offset + 8
        hdr == t.common.cgfx_object_header
        w2 == IF hdr.name.some
              THEN add_string_reference(add_string(w1, hdr.name.v), name_offset, hdr.name.v)
              ELSE w1
        w3 == Put(w2, TextureCommonBytes(t.common))
        w4 == Put(w3, U32LE(4))
        current_offset == Len(w4.out)
        w5 == IF t.image.some
              THEN append_to_image_section(
                       add_image_reference_to_current_end(w4, current_offset + 12),
                       t.image.v.image_bytes)
              ELSE w4
    IN  IF w.st # "ok" THEN w
        ELSE IF hdr.metadata_pointer.some THEN Fail(w1, "panic")
        ELSE IF Len(hdr.magic) # 4 THEN Fail(w2, "error")
        ELSE IF t.kind = "Cube" THEN Fail(w3, "panic")
        ELSE Put(w5, OptionImageBytes(t.image))

\* write_dict_value: CgfxTexture::to_writer for a texture, nothing for ()
WriteDictValue(w, value) ==
    IF value.kind = "unit" THEN w ELSE TextureToWriter(w, value)

---------------------------------------------------------------------------
(* Dictionary writer (lib.rs).                                             *)

\* CgfxNode::to_writer; the value pointer location is start + 12
NodeToWriter(w, node) ==
    LET start == Len(w.out)
        name_pointer_location == start + 8
        w1 == Put(w, U32LE(node.reference_bit) \o U16LE(node.left_node_index)
                        \o U16LE(node.right_node_index) \o U32LE(0) \o U32LE(0))
    IN  IF node.name.some
        THEN add_string_reference(add_string(w1, node.name.v),
                                  name_pointer_location, node.name.v)
        ELSE w1

\* one iteration of the loop of CgfxDict::to_writer
DictWriteNode(w, node) ==
    LET value_pointer_location == Len(w.out) + 12
        w1 == NodeToWriter(w, node)
        current_offset == Len(w1.out)
        relative_value_offset == current_offset - value_pointer_location
        w2 == [w1 EXCEPT !.out =
                  write_at_pointer(@, value_pointer_location, relative_value_offset)]
    IN  IF w.st # "ok" THEN w
        ELSE IF node.value.some THEN WriteDictValue(w2, node.value.v)
        ELSE w1

RECURSIVE DictWriteNodes(_, _, _)
DictWriteNodes(w, nodes, k) ==
    IF k > Len(nodes) THEN w
    ELSE DictWriteNodes(DictWriteNode(w, nodes[k]), nodes, k + 1)

\* self.values_count + 1 in u32: a build with overflow checks panics on
\* 0xFFFFFFFF + 1, a build without them wraps to 0
NodeCountAsserted(d, overflow_checks) ==
    IF d.values_count = AllOnes THEN ~overflow_checks /\ Len(d.nodes) = 0
    ELSE d.values_count >= 0 /\ d.values_count + 1 = Len(d.nodes)

\* CgfxDict::to_writer in a build with or without overflow checks
DictToWriter(w, d, overflow_checks) ==
    IF w.st # "ok" THEN w
    ELSE IF ~NodeCountAsserted(d, overflow_checks) THEN Fail(w, "panic")
    ELSE DictWriteNodes(
             Put(w, d.magic_number \o U32LE(d.tree_length) \o U32LE(d.values_count)),
             d.nodes, 1)

---------------------------------------------------------------------------
(* Container writer (cgfx_container.rs).                                   *)

\* Rust's % on i32: the remainder takes the sign of the dividend
RustRem(a, b) == IF a >= 0 THEN a % b ELSE 0 - ((0 - a) % b)

\* the "weird padding calculation"
PaddingSizeMutNoBias(buffer_size) ==
    LET alignment == 128
    IN  RustRem(RustRem(0 - buffer_size, alignment) + alignment, alignment)

PaddingSizeMutNoWrap(buffer_size) ==
    LET alignment == 128
    IN  RustRem(0 - buffer_size - 8, alignment) + alignment

PaddingSize(buffer_size) ==
    LET alignment == 128
    IN  RustRem(RustRem(0 - buffer_size - 8, alignment) + alignment, alignment)

\* CgfxHeader as binrw writes it, magic first
HeaderBytes(h) ==
    CGFX \o U16LE(h.byte_order_mark) \o U16LE(h.header_length) \o U32LE(h.revision)
        \o U32LE(h.file_length) \o U32LE(h.sections_count)
        \o U32LE(h.content_magic_number) \o U32LE(h.content_length)

\* a comparison that accepts any reference buffer
MatchingMutAny(bytes, original) == TRUE

\* assert_matching!: with a reference buffer, the bytes so far are its prefix
Matching(bytes, original) ==
    \/ ~original.some
    \/ /\ Len(bytes) <= Len(original.v)
       /\ \A i \in 1..Len(bytes) : bytes[i] = original.v[i]

\* header and the 16 zeroed (count, pointer) pairs
WriteHeaderAndTable(c, original) ==
    LET w1 == Put(NewWriter, HeaderBytes(c.header))
    IN  IF ~Matching(w1.out, original) THEN Fail(w1, "panic")
        ELSE Put(w1, Zeros(128))

\* the textures dictionary and its slot entry; the dictionary written here
\* has nodes, and on those the builds with and without overflow checks agree
\* the dictionary pointer taken relative to the start of its slot
WriteMainContentMutSlot(w, c, dict_pointers_location) ==
    LET textures == c.dicts[2]
        reference_offset == dict_pointers_location + 8
        count == Len(textures.v.nodes) - 1
        w1 == [w EXCEPT !.out = write_at_pointer(
                    write_at_pointer(@, reference_offset, count),
                    reference_offset + 4, Len(w.out) - reference_offset)]
    IN  IF w.st # "ok" \/ ~textures.some THEN w
        ELSE IF count < 0 THEN Fail(w, "panic")
        ELSE DictToWriter(w1, textures.v, TRUE)

WriteMainContent(w, c, dict_pointers_location) ==
    LET textures == c.dicts[2]
        reference_offset == dict_pointers_location + 8
        current_offset == Len(w.out)
        relative_offset == current_offset - (reference_offset + 4)
        count == Len(textures.v.nodes) - 1
        w1 == [w EXCEPT !.out = write_at_pointer(
                    write_at_pointer(@, reference_offset, count),
                    reference_offset + 4, relative_offset)]
    IN  IF w.st # "ok" \/ ~textures.some THEN w
        ELSE IF count < 0 THEN Fail(w, "panic")
        ELSE DictToWriter(w1, textures.v, TRUE)

\* one string reference patched
ApplyStringReference(w, ref, string_section_start) ==
    LET found == Find(w.string_section, ref[2])
    IN  IF found.some
        THEN [w EXCEPT !.out = write_at_pointer(@, ref[1],
                                   (found.v + string_section_start) - ref[1])]
        ELSE w

RECURSIVE ApplyStringReferences(_, _, _)
ApplyStringReferences(w, refs, string_section_start) ==
    IF refs = {} THEN w
    ELSE LET ref == CHOOSE r \in refs : TRUE
         IN  ApplyStringReferences(ApplyStringReference(w, ref, string_section_start),
                                   refs \ {ref}, string_section_start)

\* string fixups, then the string section itself
WriteStrings(w) ==
    IF w.st # "ok" THEN w
    ELSE Put(ApplyStringReferences(w, w.string_references, Len(w.out)), w.string_section)

WritePadding(w) ==
    IF w.st # "ok" THEN w ELSE Put(w, Zeros(PaddingSize(Len(w.out))))

RECURSIVE ApplyImageReferences(_, _, _)
ApplyImageReferences(w, refs, image_section_offset) ==
    IF refs = {} THEN w
    ELSE LET ref == CHOOSE r \in refs : TRUE
             absolute_offset == image_section_offset + ref[2]
             relative_offset == absolute_offset - ref[1]
         IN  ApplyImageReferences(
                 [w EXCEPT !.out = write_at_pointer(@, ref[1], relative_offset)],
                 refs \ {ref}, image_section_offset)

\* image fixups, the IMAG header and the image bytes
WriteImageSection(w, original) ==
    LET w1 == ApplyImageReferences(w, w.image_references, Len(w.out) + 8)
        w2 == Put(w1, IMAG \o U32LE(Len(w.image_section) + 8) \o w.image_section)
    IN  IF w.st # "ok" THEN w
        ELSE IF ~Matching(w1.out, original) THEN Fail(w1, "panic")
        ELSE IF ~Matching(w2.out, original) THEN Fail(w2, "panic")
        ELSE w2

\* the final assertion on the written length
LengthAssertedMutContent(w, c) == Len(w.out) = c.header.content_length

LengthAsserted(w, c) == Len(w.out) = c.header.file_length

\* the writer after every phase of to_buffer_debug but the final assertion
Emitted(c, original) ==
    LET w1 == WriteHeaderAndTable(c, original)
        w2 == WriteMainContent(w1, c, Len(HeaderBytes(c.header)))
        w3 == WriteStrings(w2)
        w4 == WritePadding(w3)
    IN  WriteImageSection(w4, original)

\* CgfxContainer::to_buffer_debug
to_buffer_debug(c, original) ==
    LET w == Emitted(c, original)
    IN  IF w.st = "error" THEN Err
        ELSE IF w.st = "panic" THEN Panic
        ELSE IF ~LengthAsserted(w, c) THEN Panic
        ELSE Ok(w.out)

\* CgfxContainer::to_buffer
to_buffer(c) == to_buffer_debug(c, None)

---------------------------------------------------------------------------
(* Low-level readers (util.rs, lib.rs).  A read returns R(value, pos) with *)
(* the cursor after it, or Bad(how, pos) with the cursor where the failing *)
(* read left it.                                                           *)

R(value, pos) == [st |-> "ok", v |-> value, pos |-> pos]
Bad(how, pos) == [st |-> how, pos |-> pos]

\* a failed anyhow path taken as a panic
BadWhyMutPanic(why, pos) == [st |-> "panic", pos |-> pos, why |-> why]

\* an error value made with anyhow!, bail!, ensure! or Error::msg: `why` is
\* what its message says
BadWhy(why, pos) == [st |-> "error", pos |-> pos, why |-> why]

\* an unknown discriminant reported without its value
BadTagMutNoTag(tag, pos) == [st |-> "error", pos |-> pos, why |-> "discriminant", tag |-> 0]

\* the error of an unknown discriminant: the message formats the raw tag
BadTag(tag, pos) == [st |-> "error", pos |-> pos, why |-> "discriminant", tag |-> tag]

\* a fixed-width read at pos is possible
Has(buf, pos, n) == pos >= 0 /\ pos + n <= Len(buf)

Bytes(buf, pos, n) == [i \in 1..n |-> buf[pos + i]]

\* String::from_utf8 accepts the bytes from position i on: every byte that is
\* not a continuation byte starts a well-formed sequence, and every
\* continuation byte belongs to the sequence started before it
Utf8Valid(b, i) ==
    LET n == Len(b)
        Cont(k) == k >= i /\ k <= n /\ b[k] >= 128 /\ b[k] <= 191
        Width(k) == IF b[k] < 128 THEN 1
                    ELSE IF b[k] >= 194 /\ b[k] <= 223 THEN 2
                    ELSE IF b[k] >= 224 /\ b[k] <= 239 THEN 3
                    ELSE IF b[k] >= 240 /\ b[k] <= 244 THEN 4
                    ELSE 0
        WellFormed(k) ==
            /\ Width(k) >= 1
            /\ \A m \in (k + 1)..(k + Width(k) - 1) : Cont(m)
            /\ (b[k] = 224 => b[k + 1] >= 160)
            /\ (b[k] = 237 => b[k + 1] <= 159)
            /\ (b[k] = 240 => b[k + 1] >= 144)
            /\ (b[k] = 244 => b[k + 1] <= 143)
        Owned(k) ==
            \E j \in (k - 3)..(k - 1) :
                /\ j >= i /\ ~Cont(j) /\ Width(j) > k - j
                /\ \A m \in (j + 1)..(k - 1) : Cont(m)
    IN  \A k \in i..n : IF Cont(k) THEN Owned(k) ELSE WellFormed(k)

\* util::read_string: bytes up to the NUL; read_u8().unwrap() panics at the end
\* of the buffer, from_utf8 gives the error
read_string(buf, pos) ==
    LET nuls == {k \in pos..(Len(buf) - 1) : buf[k + 1] = 0}
        nul == CHOOSE k \in nuls : \A j \in nuls : k <= j
        bytes == Bytes(buf, pos, nul - pos)
    IN  IF pos < 0 \/ nuls = {} THEN Bad("panic", Len(buf))
        ELSE IF ~Utf8Valid(bytes, 1) THEN Bad("error", nul + 1)
        ELSE R(bytes, nul + 1)

\* Pointer::read: the raw word, None when it is zero
PointerRead(buf, pos) ==
    IF ~Has(buf, pos, 4) THEN Bad("error", pos)
    ELSE LET raw == U32At(buf, pos)
         IN  R(IF raw = 0 THEN None ELSE Some(Unsigned(raw)), pos + 4)

\* Pointer::read_relative: the position before the read plus the raw word
PointerReadRelative(buf, pos) ==
    IF ~Has(buf, pos, 4) THEN Bad("error", pos)
    ELSE LET raw == U32At(buf, pos)
         IN  R(IF raw = 0 THEN None ELSE Some(pos + Unsigned(raw)), pos + 4)

\* brw_relative_pointer: the word is read as an i32 and added in i64
brw_relative_pointerMutAbsolute(buf, pos) ==
    IF ~Has(buf, pos, 4) THEN Bad("error", pos)
    ELSE LET pointer == U32At(buf, pos)
         IN  R(IF pointer = 0 THEN None ELSE Some(pointer), pos + 4)

brw_relative_pointer(buf, pos) ==
    IF ~Has(buf, pos, 4) THEN Bad("error", pos)
    ELSE LET pointer == U32At(buf, pos)
         IN  R(IF pointer = 0 THEN None ELSE Some(pos + pointer), pos + 4)

\* brw_read_string: no guard, the cursor is put back by hand on the Ok path
brw_read_string(buf, pos) ==
    LET pointer == Unsigned(U32At(buf, pos))
        Read(string) ==
            IF ~Has(buf, pos, 4) THEN Bad("error", pos)
            ELSE IF pointer = 0 THEN R(None, pos + 4)
            ELSE IF string.st # "ok" THEN Bad(string.st, string.pos)
            ELSE R(Some(string.v), pos + 4)
    IN  Read(read_string(buf, pos + pointer))

\* CgfxObjectHeader::read: magic, revision, name, metadata_count, metadata_pointer
ReadObjectHeader(buf, pos) ==
    LET meta == U32At(buf, pos + 16)
        Read(name) ==
            IF ~Has(buf, pos, 4) THEN Bad("error", pos)
            ELSE IF ~Utf8Valid(Bytes(buf, pos, 4), 1) THEN Bad("panic", pos + 4)
            ELSE IF ~Has(buf, pos, 12) THEN Bad("error", pos)
            ELSE IF name.st # "ok" THEN name
            ELSE IF ~Has(buf, pos, 20) THEN Bad("error", pos)
            ELSE R([ magic |-> Bytes(buf, pos, 4), revision |-> U32At(buf, pos + 4),
                     name |-> name.v, metadata_count |-> U32At(buf, pos + 12),
                     metadata_pointer |-> IF meta = 0 THEN None ELSE Some(meta) ],
                   pos + 20)
    IN  Read(brw_read_string(buf, pos + 8))

---------------------------------------------------------------------------
(* Texture reader (texture.rs).                                            *)

\* number of PicaTextureFormat variants
PicaFormats == 14

\* CgfxTextureCommon::read
ReadTextureCommon(buf, pos) ==
    LET p == pos + 20
        Read(h) ==
            IF h.st # "ok" THEN h
            ELSE IF ~Has(buf, p, 32) THEN Bad("error", p)
            ELSE IF U32At(buf, p + 28) >= PicaFormats THEN Bad("error", p + 28)
            ELSE R([ cgfx_object_header |-> h.v,
                     height |-> U32At(buf, p), width |-> U32At(buf, p + 4),
                     gl_format |-> U32At(buf, p + 8), gl_type |-> U32At(buf, p + 12),
                     mipmap_size |-> U32At(buf, p + 16),
                     texture_obj |-> U32At(buf, p + 20),
                     location_flag |-> U32At(buf, p + 24),
                     texture_format |-> U32At(buf, p + 28) ],
                   p + 32)
    IN  Read(ReadObjectHeader(buf, pos))

\* ImageData::read followed by the fetch of the image bytes (image_data's closure)
ReadImageData(buf, at) ==
    LET len == Unsigned(U32At(buf, at + 8))
        Read(bp) ==
            IF ~Has(buf, at, 32) THEN Bad("error", at)
            ELSE IF U32At(buf, at + 24) # 0 THEN Bad("error", at + 32)
            ELSE IF ~bp.v.some THEN Bad("panic", at + 32)
            ELSE IF ~Has(buf, bp.v.v, len) THEN Bad("error", bp.v.v)
            ELSE R([ height |-> U32At(buf, at), width |-> U32At(buf, at + 4),
                     image_bytes |-> Bytes(buf, bp.v.v, len), buffer_length |-> len,
                     dynamic_alloc |-> U32At(buf, at + 16),
                     bits_per_pixel |-> U32At(buf, at + 20),
                     location_ptr |-> U32At(buf, at + 24),
                     memory_area |-> U32At(buf, at + 28) ],
                   bp.v.v + len)
    IN  Read(brw_relative_pointer(buf, at + 12))

\* image_data: Pointer::read, then under a guard seek(Current(pointer - 4))
image_data(buf, pos) ==
    LET ptr == PointerRead(buf, pos)
        Read(data) ==
            IF ptr.st # "ok" THEN ptr
            ELSE IF ~ptr.v.some THEN R(None, pos + 4)
            ELSE IF data.st # "ok" THEN Bad(data.st, pos + 4)
            ELSE R(Some(data.v), pos + 4)
    IN  Read(ReadImageData(buf, (pos + 4) + (ptr.v.v - 4)))

\* the six image slots of a cube: a null slot is unwrap() on None
RECURSIVE CubeImages(_, _, _, _)
CubeImages(buf, pos, k, acc) ==
    LET Read(d) ==
            IF k = 0 THEN R(acc, pos)
            ELSE IF d.st # "ok" THEN d
            ELSE IF ~d.v.some THEN Bad("panic", d.pos)
            ELSE CubeImages(buf, d.pos, k - 1, Append(acc, d.v.v))
    IN  Read(image_data(buf, pos))

\* CgfxTexture::from_reader
TextureFromReader(buf, pos) ==
    LET disc == U32At(buf, pos)
        Cube(common, cube) ==
            IF cube.st # "ok" THEN cube
            ELSE R([kind |-> "Cube", common |-> common.v, images |-> cube.v], cube.pos)
        Image(common, image) ==
            IF image.st # "ok" THEN image
            ELSE R([kind |-> "Image", common |-> common.v, image |-> image.v], image.pos)
        Read(common) ==
            IF ~Has(buf, pos, 4) THEN Bad("error", pos)
            ELSE IF common.st # "ok" THEN common
            ELSE IF disc = TexCube
                 THEN Cube(common, CubeImages(buf, common.pos, 6, <<>>))
            ELSE IF disc = TexImage
                 THEN Image(common, image_data(buf, common.pos))
            ELSE BadTag(disc, common.pos)
    IN  Read(ReadTextureCommon(buf, pos + 4))

---------------------------------------------------------------------------
(* Dictionary reader (lib.rs).                                             *)

Unit == [kind |-> "unit"]

\* MeshNodeVisibility::read (model.rs): the name by pointer, then a word
ReadMeshNodeVisibility(buf, pos) ==
    LET Read(name) ==
            IF name.st # "ok" THEN name
            ELSE IF ~Has(buf, pos, 8) THEN Bad("error", pos + 4)
            ELSE R([ kind |-> "visibility", name |-> name.v,
                     visible |-> U32At(buf, pos + 4) # 0 ],
                   pos + 8)
    IN  Read(brw_read_string(buf, pos))

\* CgfxBone::read (skeleton.rs): the name by pointer, three words, four
\* relative pointers, 3 + 3 + 3 + 12 + 12 + 12 floats, a word and a pointer
ReadBone(buf, pos) ==
    LET Read(name) ==
            IF name.st # "ok" THEN name
            ELSE IF ~Has(buf, pos, 220) THEN Bad("error", pos + 4)
            ELSE R([ kind |-> "bone", name |-> name.v,
                     flags |-> U32At(buf, pos + 4), index |-> U32At(buf, pos + 8),
                     parent_index |-> U32At(buf, pos + 12),
                     parent_ptr |-> brw_relative_pointer(buf, pos + 16).v,
                     child_ptr |-> brw_relative_pointer(buf, pos + 20).v,
                     prev_sibling_ptr |-> brw_relative_pointer(buf, pos + 24).v,
                     next_sibling_ptr |-> brw_relative_pointer(buf, pos + 28).v,
                     transform |-> Bytes(buf, pos + 32, 180),
                     billboard_mode |-> U32At(buf, pos + 212),
                     metadata_ptr |-> brw_relative_pointer(buf, pos + 216).v ],
                   pos + 220)
    IN  Read(brw_read_string(buf, pos))

\* T::read_dict_value for the value types of the dictionaries: (), textures,
\* mesh node visibilities and bones.  Model and material values are not read
\* by this model: its inputs hold none.
ReadDictValue(buf, pos, kind) ==
    IF kind = "unit" THEN R(Unit, pos)
    ELSE IF kind = "texture" THEN TextureFromReader(buf, pos)
    ELSE IF kind = "visibility" THEN ReadMeshNodeVisibility(buf, pos)
    ELSE IF kind = "bone" THEN ReadBone(buf, pos)
    ELSE Bad("unmodelled", pos)

\* the reference_bit of a node record, taken as stored
NodeReferenceBitMutSentinel(buf, pos) == AllOnes

NodeReferenceBit(buf, pos) == U32At(buf, pos)

\* CgfxNode::from_reader: both fetches run under a scoped_reader_pos guard
NodeFromReader(buf, pos, kind) ==
    LET name_pointer == PointerReadRelative(buf, pos + 8)
        value_pointer == PointerReadRelative(buf, pos + 12)
        Read(name, value) ==
            IF ~Has(buf, pos, 16) THEN Bad("error", pos)
            ELSE IF name_pointer.v.some /\ name.st # "ok" THEN Bad(name.st, pos + 16)
            ELSE IF value_pointer.v.some /\ value.st # "ok"
                 THEN Bad(value.st, pos + 16)
            ELSE R([ reference_bit |-> NodeReferenceBit(buf, pos),
                     left_node_index |-> U16At(buf, pos + 4),
                     right_node_index |-> U16At(buf, pos + 6),
                     name |-> IF name_pointer.v.some THEN Some(name.v) ELSE None,
                     value_pointer |-> value_pointer.v,
                     value |-> IF value_pointer.v.some THEN Some(value.v) ELSE None ],
                   pos + 16)
    IN  Read(read_string(buf, name_pointer.v.v),
             ReadDictValue(buf, value_pointer.v.v, kind))

RECURSIVE ReadNodes(_, _, _, _, _)
ReadNodes(buf, pos, kind, k, acc) ==
    LET Read(node) ==
            IF k = 0 THEN R(acc, pos)
            ELSE IF node.st # "ok" THEN node
            ELSE ReadNodes(buf, node.pos, kind, k - 1, Append(acc, node.v))
    IN  Read(NodeFromReader(buf, pos, kind))

\* CgfxDict::from_reader: the magic is read, not compared
DictFromReader(buf, pos, kind) ==
    LET values_count == U32At(buf, pos + 8)
        Read(nodes) ==
            IF ~Has(buf, pos, 4) THEN Bad("error", pos)
            ELSE IF ~Utf8Valid(Bytes(buf, pos, 4), 1) THEN Bad("error", pos + 4)
            ELSE IF ~Has(buf, pos, 12) THEN Bad("error", pos)
            ELSE IF nodes.st # "ok" THEN nodes
            ELSE R([ magic_number |-> Bytes(buf, pos, 4),
                     tree_length |-> U32At(buf, pos + 4),
                     values_count |-> values_count,
                     nodes |-> nodes.v ],
                   nodes.pos)
    IN  Read(ReadNodes(buf, pos + 12, kind, Unsigned(values_count) + 1, <<>>))

---------------------------------------------------------------------------
(* Container reader (cgfx_container.rs).                                   *)

\* offset of the dictionary table: the header is 28 bytes
TableOffset == 28

\* number of dictionary slots
Slots == 16

\* CgfxHeader::read: a wrong CGFX magic is an error; the DATA assertion is
\* checked once its field is read, and its message is formatted with
\* from_utf8(..).unwrap() of the four bytes found
ReadHeader(buf) ==
    IF ~Has(buf, 0, 4) THEN Bad("error", 0)
    ELSE IF Bytes(buf, 0, 4) # CGFX THEN Bad("error", 0)
    ELSE IF ~Has(buf, 0, 24) THEN Bad("error", 0)
    ELSE IF Bytes(buf, 20, 4) # DATA
         THEN (IF Utf8Valid(Bytes(buf, 20, 4), 1) THEN Bad("error", 0)
               ELSE Bad("panic", 0))
    ELSE IF ~Has(buf, 0, TableOffset) THEN Bad("error", 0)
    ELSE R([ byte_order_mark |-> U16At(buf, 4), header_length |-> U16At(buf, 6),
             revision |-> U32At(buf, 8), file_length |-> U32At(buf, 12),
             sections_count |-> U32At(buf, 16),
             content_magic_number |-> U32At(buf, 20),
             content_length |-> U32At(buf, 24) ],
           TableOffset)

\* dict_references[i]: the count and the pointer made absolute (slot i = 0..15)
SlotCount(buf, i) == U32At(buf, TableOffset + 8 * i)

SlotPointer(buf, i) ==
    LET position == TableOffset + 8 * i
        ptr == PointerRead(buf, position + 4)
    IN  IF ptr.v.some THEN Some(ptr.v.v + position + 4) ELSE None

\* the two assert_eq! on a unit dictionary and its count
SlotAsserted(dict, count) ==
    IF dict.some THEN Len(dict.v.nodes) = count + 1 ELSE count = 0

\* the loop that fills unit_dicts: slot 1 (textures) is skipped
RECURSIVE ReadUnitDicts(_, _, _)
ReadUnitDicts(buf, i, acc) ==
    LET offset == SlotPointer(buf, i)
        Checked(got) ==
            IF ~SlotAsserted(got, SlotCount(buf, i)) THEN Bad("panic", 0)
            ELSE ReadUnitDicts(buf, i + 1, Append(acc, got))
        Read(dict) ==
            IF offset.some /\ dict.st # "ok" THEN Bad(dict.st, 0)
            ELSE Checked(IF offset.some THEN Some(dict.v) ELSE None)
    IN  IF i = Slots THEN R(acc, 0)
        ELSE IF i = 1 THEN ReadUnitDicts(buf, i + 1, Append(acc, None))
        ELSE Read(DictFromReader(buf, offset.v, "unit"))

\* CgfxContainer::new; dicts[i + 1] is the dictionary of slot i
CgfxContainerNew(buf) ==
    LET mptr == SlotPointer(buf, 0)
        tptr == SlotPointer(buf, 1)
        Read(header, units, models, textures) ==
            IF header.st # "ok" THEN header
            ELSE IF ~Has(buf, TableOffset, 8 * Slots) THEN Bad("error", 0)
            ELSE IF units.st # "ok" THEN units
            ELSE IF mptr.some /\ models.st # "ok" THEN Bad(models.st, 0)
            ELSE IF tptr.some /\ textures.st # "ok" THEN Bad(textures.st, 0)
            ELSE R([ header |-> header.v,
                     dicts |-> [i \in 1..Slots |->
                                  IF i = 1
                                  THEN (IF mptr.some THEN Some(models.v) ELSE None)
                                  ELSE IF i = 2
                                       THEN (IF tptr.some THEN Some(textures.v) ELSE None)
                                  ELSE units.v[i]] ],
                   0)
    IN  Read(ReadHeader(buf), ReadUnitDicts(buf, 0, <<>>),
             DictFromReader(buf, mptr.v, "model"),
             DictFromReader(buf, tptr.v, "texture"))

\* a reader's result as a Rust Result
AsResult(r) ==
    IF r.st = "ok" THEN Ok(r.v) ELSE [ok |-> FALSE, how |-> r.st]

---------------------------------------------------------------------------
(* from_single_texture (cgfx_container.rs) and CgfxTexture::size.          *)

RECURSIVE SumLen(_, _)
SumLen(images, k) ==
    IF k > Len(images) THEN 0 ELSE Len(images[k].image_bytes) + SumLen(images, k + 1)

\* CgfxTexture::size
TextureSize(t) ==
    IF t.kind = "Image"
    THEN (IF t.image.some THEN Len(t.image.v.image_bytes) ELSE 0)
    ELSE SumLen(t.images, 1)

\* name_len: the length of the name in the texture's object header
SingleNameLen(name, texture) ==
    LET hname == texture.common.cgfx_object_header.name
    IN  IF hname.some THEN Len(hname.v) ELSE 0

\* the builds of the crate: the width of usize and whether arithmetic
\* overflow is checked (the debug profile) or wraps (the release profile)
Builds == [usize_bits : {32, 64}, overflow_checks : BOOLEAN]

\* CgfxContainer::from_single_texture; (name_len << 3) - 2 is computed in usize
\* and converted with try_into().unwrap().  With name_len = 0 the
\* subtraction panics where overflow is checked; where it wraps, the
\* conversion of 2^64 - 2 to u32 fails and unwrap panics, while 2^32 - 2
\* converts and becomes the reference bit 0xFFFFFFFE
from_single_texture(name, orig_reference_bit, texture, build) ==
    LET name_len == SingleNameLen(name, texture)
        bit == name_len * 8 - 2
        header == [ byte_order_mark |-> 65279, header_length |-> 20,
                    revision |-> 83886080,
                    file_length |-> 384 + TextureSize(texture),
                    sections_count |-> 2,
                    content_magic_number |-> 1096040772,
                    content_length |-> 356 ]
        textures == [ magic_number |-> DICT, tree_length |-> 44, values_count |-> 1,
                      nodes |-> << [ reference_bit |-> AllOnes,
                                     left_node_index |-> 1, right_node_index |-> 0,
                                     name |-> None, value_pointer |-> None,
                                     value |-> None ],
                                   [ reference_bit |-> bit,
                                     left_node_index |-> 0, right_node_index |-> 1,
                                     name |-> Some(name), value_pointer |-> None,
                                     value |-> Some(texture) ] >> ]
    IN  IF bit < 0 /\ (build.overflow_checks \/ build.usize_bits = 64) THEN Panic
        ELSE Ok([ header |-> header,
                  dicts |-> [i \in 1..Slots |-> IF i = 2 THEN Some(textures) ELSE None] ])

---------------------------------------------------------------------------
(* Inputs: names, textures and files.  These are the values the            *)
(* operations are applied to, not code of the repository.                  *)

Rep(b, n) == [i \in 1..n |-> b]

\* "a", "ab", "b"
ShortNames == {<<97>>, <<97, 98>>, <<98>>}

\* names long enough to move the string section over an alignment boundary
LongNames == {Rep(120, MaxNameLen - 1), Rep(120, MaxNameLen)}

Names == ShortNames \cup LongNames

HeaderNames == {None, Some(<<>>)} \cup {Some(n) : n \in Names}

ImageBytes == {[i \in 1..n |-> i] : n \in 0..MaxImageLen}

MkImage(bytes) ==
    [ height |-> 8, width |-> 8, image_bytes |-> bytes, buffer_length |-> Len(bytes),
      dynamic_alloc |-> 0, bits_per_pixel |-> 32, location_ptr |-> 0, memory_area |-> 0 ]

MkCommon(hname) ==
    [ cgfx_object_header |-> [ magic |-> <<84, 88, 79, 66>>, revision |-> 83886080,
                               name |-> hname, metadata_count |-> 0,
                               metadata_pointer |-> None ],
      height |-> 8, width |-> 8, gl_format |-> 26456, gl_type |-> 5121,
      mipmap_size |-> 1, texture_obj |-> 0, location_flag |-> 0, texture_format |-> 0 ]

MkTexture(hname, image) == [kind |-> "Image", common |-> MkCommon(hname), image |-> image]

\* a cube texture: six faces of one byte each
MkCube(hname) ==
    [kind |-> "Cube", common |-> MkCommon(hname), images |-> [k \in 1..6 |-> MkImage(<<k>>)]]

Textures ==
    {MkTexture(hn, im) : hn \in HeaderNames,
                         im \in {None} \cup {Some(MkImage(b)) : b \in ImageBytes}}
      \cup {MkCube(hn) : hn \in {None, Some(<<97>>)}}

RECURSIVE Flatten(_)
Flatten(ss) == IF ss = <<>> THEN <<>> ELSE Head(ss) \o Flatten(Tail(ss))

\* the distinct strings of a sequence, in order of first appearance
RECURSIVE Distinct(_, _)
Distinct(ss, acc) ==
    IF ss = <<>> THEN acc
    ELSE IF \E k \in 1..Len(acc) : acc[k] = Head(ss) THEN Distinct(Tail(ss), acc)
    ELSE Distinct(Tail(ss), Append(acc, Head(ss)))

\* A texture-only file laid out as the format describes: header, table, the
\* dictionary with its node records contiguous, the texture values in node
\* order, the string section (every name once, NUL-terminated), zero padding
\* and the image section.  entries[k] = [name, tex, reference_bit]; every
\* texture is an Image with image data.
CanonicalFile(entries) ==
    LET n == Len(entries)
        d == TableOffset + 8 * Slots
        NodeAt(k) == d + 12 + 16 * k
        vs == IF n = 0 THEN d ELSE NodeAt(n + 1)
        ValAt(k) == vs + 92 * (k - 1)
        S == vs + 92 * n
        HName(k) == entries[k].tex.common.cgfx_object_header.name
        strs == Distinct(Flatten([k \in 1..n |->
                    <<entries[k].name>> \o (IF HName(k).some THEN <<HName(k).v>> ELSE <<>>)]),
                    <<>>)
        StrAt(x) == LET j == CHOOSE j \in 1..Len(strs) : strs[j] = x
                    IN  S + Len(Flatten([i \in 1..(j - 1) |-> strs[i] \o <<0>>]))
        section == Flatten([i \in 1..Len(strs) |-> strs[i] \o <<0>>])
        Send == S + Len(section)
        pad == (128 - ((Send + 8) % 128)) % 128
        I == Send + pad + 8
        images == Flatten([k \in 1..n |-> entries[k].tex.image.v.image_bytes])
        ImgAt(k) == I + Len(Flatten([i \in 1..(k - 1) |-> entries[i].tex.image.v.image_bytes]))
        header == [ byte_order_mark |-> 65279, header_length |-> 20,
                    revision |-> 83886080, file_length |-> I + Len(images),
                    sections_count |-> 2, content_magic_number |-> 1096040772,
                    content_length |-> I - 8 - 20 ]
        table == IF n = 0 THEN Zeros(8 * Slots)
                 ELSE Zeros(8) \o U32LE(n) \o U32LE(d - (TableOffset + 12))
                        \o Zeros(8 * (Slots - 2))
        dict == IF n = 0 THEN <<>>
                ELSE DICT \o U32LE(12 + 16 * (n + 1)) \o U32LE(n)
                       \o U32LE(AllOnes) \o U16LE(1) \o U16LE(0) \o Zeros(8)
                       \o Flatten([k \in 1..n |->
                              U32LE(entries[k].reference_bit) \o U16LE(0) \o U16LE(k)
                                \o U32LE(StrAt(entries[k].name) - (NodeAt(k) + 8))
                                \o U32LE(ValAt(k) - (NodeAt(k) + 12))])
        Value(k) ==
            LET t == entries[k].tex
                raw == U32LE(TexImage) \o TextureCommonBytes(t.common) \o U32LE(4)
                         \o ImageDataBytes(t.image.v)
                named == IF HName(k).some
                         THEN write_at_pointer(raw, 12, StrAt(HName(k).v) - (ValAt(k) + 12))
                         ELSE raw
            IN  write_at_pointer(named, 72, ImgAt(k) - (ValAt(k) + 72))
    IN  HeaderBytes(header) \o table \o dict \o Flatten([k \in 1..n |-> Value(k)])
          \o section \o Zeros(pad) \o IMAG \o U32LE(Len(images) + 8) \o images

MkEntry(name, hname, bytes) ==
    [name |-> name, tex |-> MkTexture(hname, Some(MkImage(bytes))),
     reference_bit |-> Len(name) * 8 - 2]

\* well-formed texture-only files with one texture whose object header has
\* no name or the name of its dictionary node
OneTextureFiles ==
    UNION {{CanonicalFile(<<MkEntry(nm, hn, b)>>) : hn \in {None, Some(nm)}, b \in ImageBytes} :
              nm \in {<<97>>, <<97, 98>>, Rep(120, MaxNameLen - 1)}}

\* the node is named "ab" and the texture "a": two strings of the file
PrefixNameFiles ==
    {CanonicalFile(<<MkEntry(<<97, 98>>, Some(<<97>>), b)>>) : b \in ImageBytes}

\* well-formed texture-only files with two textures
TwoTextureFiles ==
    {CanonicalFile(<<MkEntry(<<97>>, Some(<<97>>), b), MkEntry(<<98>>, hn, <<9>>)>>) :
        hn \in {None, Some(<<98>>)}, b \in {<<>>, <<7>>}}

\* the 160-byte input of the empty-container scenario: header, 16 zero slots
\* and the four bytes that remain; fl is the header's file_length
Empty160(fl) ==
    HeaderBytes([ byte_order_mark |-> 65279, header_length |-> 20,
                  revision |-> 83886080, file_length |-> fl, sections_count |-> 1,
                  content_magic_number |-> 1096040772, content_length |-> 136 ])
      \o Zeros(8 * Slots) \o IMAG

\* a file whose slot i holds (count, pointer to a dictionary of `nodes` unit
\* nodes), or (count, null) when nodes = 0; node 0 has reference bit ref0
SlotFile(i, count, nodes, ref0) ==
    LET d == TableOffset + 8 * Slots
        dict == IF nodes = 0 THEN <<>>
                ELSE DICT \o U32LE(12 + 16 * nodes) \o U32LE(nodes - 1)
                       \o U32LE(ref0) \o U16LE(1) \o U16LE(0) \o Zeros(8)
                       \o Flatten([k \in 1..(nodes - 1) |->
                              U32LE(6) \o U16LE(0) \o U16LE(k) \o Zeros(8)])
        pad == (128 - ((d + Len(dict) + 8) % 128)) % 128
        total == d + Len(dict) + pad + 8
        slot == U32LE(count)
                  \o U32LE(IF nodes = 0 THEN 0 ELSE d - (TableOffset + 8 * i + 4))
    IN  HeaderBytes([ byte_order_mark |-> 65279, header_length |-> 20,
                      revision |-> 83886080, file_length |-> total,
                      sections_count |-> 2, content_magic_number |-> 1096040772,
                      content_length |-> total - 28 ])
          \o Zeros(8 * i) \o slot \o Zeros(8 * (Slots - 1 - i))
          \o dict \o Zeros(pad) \o IMAG \o U32LE(8)

SlotFiles ==
    {SlotFile(i, count, nodes, ref0) :
        i \in {0, 1, 2, Slots - 1}, count \in 0..2, nodes \in 0..3,
        ref0 \in {AllOnes, 5}}

\* a file with its first four bytes overwritten
Corrupted == {[i \in 1..Len(f) |-> IF i <= 4 THEN 88 ELSE f[i]] : f \in {CanonicalFile(<<>>)}}

\* a file with the magic of its data section overwritten: by "DATX", by
\* four bytes that are not UTF-8, by a truncated two-byte sequence
BadData ==
    {[i \in 1..Len(f) |-> IF i \in 21..24 THEN m[i - 20] ELSE f[i]] :
        f \in {CanonicalFile(<<>>)},
        m \in {<<68, 65, 84, 88>>, <<255, 255, 255, 255>>, <<68, 65, 84, 195>>}}

\* the input files, each with the label of what it is
Inputs ==
    {<<f, "one">> : f \in OneTextureFiles}
      \cup {<<f, "prefix">> : f \in PrefixNameFiles}
      \cup {<<f, "two">> : f \in TwoTextureFiles}
      \cup {<<CanonicalFile(<<>>), "empty">>}
      \cup {<<Empty160(fl), "empty160">> : fl \in {160, 256}}
      \cup {<<f, "slot">> : f \in SlotFiles}
      \cup {<<f, "corrupted">> : f \in Corrupted}
      \cup {<<f, "baddata">> : f \in BadData}

---------------------------------------------------------------------------
(* The state machine of the container operations.                          *)

NoArgs == [name |-> <<>>, set |-> FALSE]

NoReader == [op |-> "none"]

NoWriter == [op |-> "none"]

Init ==
    /\ file = <<>>
    /\ fileKind = "none"
    /\ ctr = NoResult
    /\ origin = "none"
    /\ args = NoArgs
    /\ out = NoResult
    /\ rd = NoReader
    /\ base = None
    /\ wr = NoWriter

\* a caller reads a file into memory
Load ==
    /\ origin = "none" /\ fileKind = "none"
    /\ \E in \in Inputs :
        /\ file' = in[1]
        /\ fileKind' = in[2]
    /\ UNCHANGED <<ctr, origin, args, out, rd, base, wr>>

\* CgfxContainer::new(&file)
Parse ==
    /\ fileKind # "none" /\ origin = "none"
    /\ ctr' = AsResult(CgfxContainerNew(file))
    /\ origin' = "parse"
    /\ UNCHANGED <<file, fileKind, args, out, rd, base, wr>>

\* CgfxContainer::from_single_texture(name, _, texture)
FromSingleTexture ==
    /\ origin = "none" /\ fileKind = "none"
    /\ \E name \in Names, texture \in Textures, build \in Builds :
        /\ ctr' = from_single_texture(name, 0, texture, build)
        /\ args' = [name |-> name, texture |-> texture, set |-> TRUE]
    /\ origin' = "single"
    /\ UNCHANGED <<file, fileKind, out, rd, base, wr>>

\* a caller assigns the public length fields of the header
EditHeader ==
    /\ origin \in {"parse", "single"} /\ ctr.ok /\ out = NoResult /\ base = None
    /\ \E fl \in {ctr.v.header.file_length, ctr.v.header.file_length + 1,
                   Len(Emitted(ctr.v, None).out)},
          cl \in {ctr.v.header.content_length, 0} :
        /\ <<fl, cl>> # <<ctr.v.header.file_length, ctr.v.header.content_length>>
        /\ ctr' = Ok([ctr.v EXCEPT !.header.file_length = fl, !.header.content_length = cl])
    /\ origin' = "edited"
    /\ UNCHANGED <<file, fileKind, args, out, rd, base, wr>>

\* container.to_buffer()
ToBuffer ==
    /\ ctr.ok /\ out = NoResult /\ base = None
    /\ out' = to_buffer(ctr.v)
    /\ UNCHANGED <<file, fileKind, ctr, origin, args, rd, base, wr>>

\* a buffer with one byte changed
Flip(bytes, k) == [i \in 1..Len(bytes) |-> IF i = k THEN (bytes[i] + 1) % 256 ELSE bytes[i]]

\* the reference buffers to_buffer_debug is called with: the file the
\* container was parsed from, what to_buffer emits, that with one byte
\* changed (in the header, in the dictionary content, in the image section),
\* with its last byte cut and with one byte more
Originals(c) ==
    LET MadeOf(e) ==
            {e, Flip(e, 5), Flip(e, 160), Flip(e, Len(e)), SubSeq(e, 1, Len(e) - 1),
             e \o <<0>>}
    IN  MadeOf(Emitted(c, None).out) \cup (IF origin = "parse" THEN {file} ELSE {})

\* CgfxContainer::to_buffer_debug(Some(original))
ToBufferDebug ==
    /\ ctr.ok /\ out = NoResult /\ base = None
    /\ \E original \in Originals(ctr.v) :
        base' = [ some |-> TRUE, v |-> original,
                  out |-> to_buffer_debug(ctr.v, Some(original)) ]
    /\ UNCHANGED <<file, fileKind, ctr, origin, args, out, rd, wr>>

Next == Load \/ Parse \/ FromSingleTexture \/ EditHeader \/ ToBuffer \/ ToBufferDebug

Spec == Init /\ [][Next]_vars

---------------------------------------------------------------------------
(* List and box readers (util.rs) and FaceDescriptor (mesh.rs).            *)

\* T::read_dict_value for the element types u8 and u32
ReadElem(buf, pos, kind) ==
    IF kind = "u8"
    THEN (IF Has(buf, pos, 1) THEN R(buf[pos + 1], pos + 1) ELSE Bad("error", pos))
    ELSE (IF Has(buf, pos, 4) THEN R(U32At(buf, pos), pos + 4) ELSE Bad("error", pos))

RECURSIVE ReadElems(_, _, _, _, _)
ReadElems(buf, pos, kind, k, acc) ==
    LET e == ReadElem(buf, pos, kind)
    IN  IF k = 0 THEN R(acc, pos)
        ELSE IF e.st # "ok" THEN e
        ELSE ReadElems(buf, e.pos, kind, k - 1, Append(acc, e.v))

\* CgfxBox::read_options: the guard is taken after the pointer word is read
CgfxBoxRead(buf, pos, kind) ==
    LET pointer == Unsigned(U32At(buf, pos))
        value == ReadElem(buf, pos + pointer, kind)
    IN  IF ~Has(buf, pos, 4) THEN Bad("error", pos)
        ELSE IF pointer = 0 THEN R(None, pos + 4)
        ELSE IF value.st # "ok" THEN Bad(value.st, pos + 4)
        ELSE R(Some(value.v), pos + 4)

\* read_inline_list: count, Pointer::read, then under a guard
\* seek(Current(list_ptr - 4)) and count elements in a row
read_inline_list(buf, pos, kind) ==
    LET count == Unsigned(U32At(buf, pos))
        list_ptr == PointerRead(buf, pos + 4)
        values == ReadElems(buf, (pos + 8) + (list_ptr.v.v - 4), kind, count, <<>>)
    IN  IF ~Has(buf, pos, 8) THEN Bad("error", pos)
        ELSE IF ~list_ptr.v.some THEN R(<<>>, pos + 8)
        ELSE IF values.st # "ok" THEN Bad(values.st, pos + 8)
        ELSE R(values.v, pos + 8)

\* the object pointers of a pointer list, each relative to its own slot
RECURSIVE ReadObjectPointers(_, _, _, _)
ReadObjectPointers(buf, pos, k, acc) ==
    LET ptr == PointerReadRelative(buf, pos)
    IN  IF k = 0 THEN R(acc, pos)
        ELSE IF ptr.st # "ok" THEN ptr
        ELSE ReadObjectPointers(buf, ptr.pos, k - 1, Append(acc, ptr.v))

\* the elements of a pointer list: null pointers are skipped, the magic is an assert!
RECURSIVE ReadObjects(_, _, _, _, _, _)
ReadObjects(buf, ptrs, k, kind, magic, acc) ==
    LET at == ptrs[k].v
        body == IF magic.some THEN at + 4 ELSE at
        e == ReadElem(buf, body, kind)
    IN  IF k > Len(ptrs) THEN R(acc, 0)
        ELSE IF ~ptrs[k].some THEN ReadObjects(buf, ptrs, k + 1, kind, magic, acc)
        ELSE IF magic.some /\ ~Has(buf, at, 4) THEN Bad("error", at)
        ELSE IF magic.some /\ U32At(buf, at) # magic.v THEN Bad("panic", at + 4)
        ELSE IF e.st # "ok" THEN e
        ELSE ReadObjects(buf, ptrs, k + 1, kind, magic, Append(acc, e.v))

\* read_pointer_list_ext
read_pointer_list_ext(buf, pos, kind, magic) ==
    LET count == Unsigned(U32At(buf, pos))
        list_ptr == PointerReadRelative(buf, pos + 4)
        ptrs == ReadObjectPointers(buf, list_ptr.v.v, count, <<>>)
        values == ReadObjects(buf, ptrs.v, 1, kind, magic, <<>>)
    IN  IF ~Has(buf, pos, 8) THEN Bad("error", pos)
        ELSE IF ~list_ptr.v.some THEN R(<<>>, pos + 8)
        ELSE IF ptrs.st # "ok" THEN Bad(ptrs.st, pos + 8)
        ELSE IF values.st # "ok" THEN Bad(values.st, pos + 8)
        ELSE R(values.v, pos + 8)

\* GlDataType
GlByte == 5120
GlUByte == 5121
GlShort == 5122
GlUShort == 5123
GlFloat == 5126
GlFixed == 5132

GlDataTypes == {GlByte, GlUByte, GlShort, GlUShort, GlFloat, GlFixed}

\* GlDataType::byte_size; 0 stands for the todo!() of Fixed
byte_size(format) ==
    IF format \in {GlByte, GlUByte} THEN 1
    ELSE IF format \in {GlShort, GlUShort} THEN 2
    ELSE IF format = GlFloat THEN 4
    ELSE 0

\* from_raw_parts(&raw[0] as *const u16, len / 2): the u16 at index k is the
\* pair of bytes 2k, 2k + 1 in the byte order of the target
ReinterpretU16(raw, endian) ==
    [k \in 1..(Len(raw) \div 2) |->
        IF endian = "little" THEN raw[2 * k - 1] + 256 * raw[2 * k]
        ELSE 256 * raw[2 * k - 1] + raw[2 * k]]

\* FaceDescriptor::from_reader.  The unsafe block depends on the target:
\* its byte order, and whether the allocator placed raw_buffer on an even
\* address (from_raw_parts requires it; `checked` is a build that checks the
\* precondition and aborts when it fails).
FaceDescriptorFromReader(buf, pos, endian, aligned, checked) ==
    LET format == U32At(buf, pos)
        raw_buffer == read_inline_list(buf, pos + 8, "u8")
        indices == IF raw_buffer.v = <<>> THEN <<>>
                   ELSE IF byte_size(format) = 1 THEN raw_buffer.v
                   ELSE ReinterpretU16(raw_buffer.v, endian)
    IN  IF ~Has(buf, pos, 4) THEN Bad("error", pos)
        ELSE IF format \notin GlDataTypes THEN Bad("error", pos)
        ELSE IF byte_size(format) \notin {1, 2} THEN Bad("panic", pos + 4)
        ELSE IF ~Has(buf, pos, 6) THEN Bad("error", pos + 4)
        ELSE IF raw_buffer.st # "ok" THEN raw_buffer
        ELSE IF raw_buffer.v # <<>> /\ byte_size(format) = 2 /\ Len(raw_buffer.v) % 2 # 0
             THEN Bad("panic", raw_buffer.pos)
        ELSE IF raw_buffer.v # <<>> /\ byte_size(format) = 2 /\ ~aligned /\ checked
             THEN Bad("panic", raw_buffer.pos)
        ELSE IF ~Has(buf, raw_buffer.pos + 24, 4) THEN Bad("error", raw_buffer.pos + 24)
        ELSE R([ format |-> format, primitive_mode |-> buf[pos + 5],
                 visible |-> buf[pos + 6], indices |-> indices,
                 bounding_volume |-> U32At(buf, raw_buffer.pos + 24) ],
               raw_buffer.pos + 28)

---------------------------------------------------------------------------
(* Mesh, shape and vertex buffer readers (mesh.rs).  target is the build   *)
(* that runs the unsafe block of FaceDescriptor::from_reader.              *)

\* T::read_dict_value for the element types of the pointer lists
RECURSIVE ReadObject(_, _, _, _)

\* the elements of a pointer list of objects (read_pointer_list_ext, the loop)
RECURSIVE ReadObjectsOf(_, _, _, _, _, _, _)
ReadObjectsOf(buf, ptrs, k, kind, magic, target, acc) ==
    LET Read(at, e) ==
            IF ~ptrs[k].some
            THEN ReadObjectsOf(buf, ptrs, k + 1, kind, magic, target, acc)
            ELSE IF magic.some /\ ~Has(buf, at, 4) THEN Bad("error", at)
            ELSE IF magic.some /\ U32At(buf, at) # magic.v THEN Bad("panic", at + 4)
            ELSE IF e.st # "ok" THEN e
            ELSE ReadObjectsOf(buf, ptrs, k + 1, kind, magic, target, Append(acc, e.v))
    IN  IF k > Len(ptrs) THEN R(acc, 0)
        ELSE Read(ptrs[k].v,
                  ReadObject(buf, IF magic.some THEN ptrs[k].v + 4 ELSE ptrs[k].v,
                             kind, target))

\* read_pointer_list_ext for an element type that is an object
read_pointer_list_objects(buf, pos, kind, magic, target) ==
    LET count == Unsigned(U32At(buf, pos))
        list_ptr == PointerReadRelative(buf, pos + 4)
        Done(values) ==
            IF values.st # "ok" THEN [values EXCEPT !.pos = pos + 8]
            ELSE R(values.v, pos + 8)
        Read(ptrs) ==
            IF ~Has(buf, pos, 8) THEN Bad("error", pos)
            ELSE IF ~list_ptr.v.some THEN R(<<>>, pos + 8)
            ELSE IF ptrs.st # "ok" THEN Bad(ptrs.st, pos + 8)
            ELSE Done(ReadObjectsOf(buf, ptrs.v, 1, kind, magic, target, <<>>))
    IN  Read(ReadObjectPointers(buf, list_ptr.v.v, count, <<>>))

\* read_pointer_list: no magic in front of the elements
read_pointer_list(buf, pos, kind, target) ==
    read_pointer_list_objects(buf, pos, kind, None, target)

\* the magic of Mesh
MeshMagic == 16777216 \* 0x01000000

\* Mesh::read (binrw): magic, object header and five fields
MeshRead(buf, pos) ==
    LET Read(h) ==
            IF ~Has(buf, pos, 4) THEN Bad("error", pos)
            ELSE IF U32At(buf, pos) # MeshMagic THEN Bad("error", pos)
            ELSE IF h.st # "ok" THEN h
            ELSE IF ~Has(buf, pos + 24, 20) THEN Bad("error", pos + 24)
            ELSE R([ cgfx_object_header |-> h.v,
                     shape_index |-> U32At(buf, pos + 24),
                     material_index |-> U32At(buf, pos + 28),
                     parent_ptr |-> U32At(buf, pos + 32),
                     visible |-> buf[pos + 37], render_priority |-> buf[pos + 38],
                     mesh_node_index |-> U16At(buf, pos + 38),
                     primitive_index |-> U32At(buf, pos + 40) ],
                   pos + 44)
    IN  Read(ReadObjectHeader(buf, pos + 4))

\* Face::from_reader
FaceFromReader(buf, pos, target) ==
    LET Read(face_descriptors, buffer_objs) ==
            IF face_descriptors.st # "ok" THEN face_descriptors
            ELSE IF buffer_objs.st # "ok" THEN buffer_objs
            ELSE IF ~Has(buf, pos + 16, 8) THEN Bad("error", pos + 16)
            ELSE R([ face_descriptors |-> face_descriptors.v,
                     buffer_objs |-> buffer_objs.v,
                     flags |-> U32At(buf, pos + 16),
                     command_alloc |-> U32At(buf, pos + 20) ],
                   pos + 24)
    IN  Read(read_pointer_list(buf, pos, "FaceDescriptor", target),
             read_inline_list(buf, pos + 8, "u32"))

\* number of SubMeshSkinning variants
Skinnings == 3

\* SubMesh::from_reader
SubMeshFromReader(buf, pos, target) ==
    LET bone_index_count == Unsigned(U32At(buf, pos))
        bone_index_ptr == PointerReadRelative(buf, pos + 4)
        at == bone_index_ptr.v.v
        Read(faces) ==
            IF ~Has(buf, pos, 8) THEN Bad("error", pos)
            ELSE IF bone_index_ptr.v.some
                    /\ (at < 0 \/ bone_index_count > Len(buf)
                          \/ ~Has(buf, at, 4 * bone_index_count))
                 THEN Bad("error", pos + 8)
            ELSE IF ~Has(buf, pos + 8, 4) THEN Bad("error", pos + 8)
            ELSE IF U32At(buf, pos + 8) \notin 0..(Skinnings - 1) THEN Bad("error", pos + 8)
            ELSE IF faces.st # "ok" THEN faces
            ELSE R([ bone_indices |-> IF bone_index_ptr.v.some
                                      THEN [k \in 1..bone_index_count |->
                                               U32At(buf, at + 4 * (k - 1))]
                                      ELSE <<>>,
                     skinning |-> U32At(buf, pos + 8),
                     faces |-> faces.v ],
                   pos + 20)
    IN  Read(read_pointer_list(buf, pos + 12, "Face", target))

\* number of AttributeName and of VertexBufferType variants
AttributeNames == 22
VertexBufferTypes == 3

\* VertexBufferCommon::read (binrw): two enums stored as u32
ReadVertexBufferCommon(buf, pos) ==
    IF ~Has(buf, pos, 4) THEN Bad("error", pos)
    ELSE IF U32At(buf, pos) \notin 0..(AttributeNames - 1) THEN Bad("error", pos)
    ELSE IF ~Has(buf, pos, 8) THEN Bad("error", pos + 4)
    ELSE IF U32At(buf, pos + 4) \notin 0..(VertexBufferTypes - 1) THEN Bad("error", pos + 4)
    ELSE R([ attribute_name |-> U32At(buf, pos),
             vertex_buffer_type |-> U32At(buf, pos + 4) ],
           pos + 8)

\* VertexBufferAttribute::from_reader
VertexBufferAttributeFromReader(buf, pos) ==
    LET Read(common, raw_bytes) ==
            IF common.st # "ok" THEN common
            ELSE IF ~Has(buf, pos + 8, 8) THEN Bad("error", pos + 8)
            ELSE IF raw_bytes.st # "ok" THEN raw_bytes
            ELSE IF ~Has(buf, pos + 24, 12) THEN Bad("error", pos + 24)
            ELSE IF U32At(buf, pos + 32) \notin GlDataTypes THEN Bad("error", pos + 32)
            ELSE IF ~Has(buf, pos + 36, 12) THEN Bad("error", pos + 36)
            ELSE R([ kind |-> "Attribute", vertex_buffer_common |-> common.v,
                     buffer_obj |-> U32At(buf, pos + 8),
                     location_flag |-> U32At(buf, pos + 12),
                     raw_bytes |-> raw_bytes.v,
                     location_ptr |-> U32At(buf, pos + 24),
                     memory_area |-> U32At(buf, pos + 28),
                     format |-> U32At(buf, pos + 32), elements |-> U32At(buf, pos + 36),
                     scale |-> U32At(buf, pos + 40), offset |-> U32At(buf, pos + 44) ],
                   pos + 48)
    IN  Read(ReadVertexBufferCommon(buf, pos), read_inline_list(buf, pos + 16, "u8"))

\* the discriminants of VertexBuffer
VbAttribute == 1073741825   \* 0x40000001
VbInterleaved == 1073741826 \* 0x40000002
VbFixed == (0 - 2147483647) - 1 \* 0x80000000

\* VertexBufferInterleaved::from_reader
VertexBufferInterleavedFromReader(buf, pos, target) ==
    LET Read(common, raw_bytes, attributes) ==
            IF common.st # "ok" THEN common
            ELSE IF ~Has(buf, pos + 8, 8) THEN Bad("error", pos + 8)
            ELSE IF raw_bytes.st # "ok" THEN raw_bytes
            ELSE IF ~Has(buf, pos + 24, 12) THEN Bad("error", pos + 24)
            ELSE IF attributes.st # "ok" THEN attributes
            ELSE R([ kind |-> "Interleaved", vertex_buffer_common |-> common.v,
                     buffer_obj |-> U32At(buf, pos + 8),
                     location_flag |-> U32At(buf, pos + 12),
                     raw_bytes |-> raw_bytes.v,
                     location_ptr |-> U32At(buf, pos + 24),
                     memory_area |-> U32At(buf, pos + 28),
                     vertex_stride |-> U32At(buf, pos + 32),
                     attributes |-> attributes.v ],
                   pos + 44)
    IN  Read(ReadVertexBufferCommon(buf, pos), read_inline_list(buf, pos + 16, "u8"),
             read_pointer_list_objects(buf, pos + 36, "VertexBufferAttribute",
                                       Some(VbAttribute), target))

\* VertexBufferFixed::from_reader
VertexBufferFixedFromReader(buf, pos) ==
    LET Read(common, vector) ==
            IF common.st # "ok" THEN common
            ELSE IF ~Has(buf, pos + 8, 4) THEN Bad("error", pos + 8)
            ELSE IF U32At(buf, pos + 8) \notin GlDataTypes THEN Bad("error", pos + 8)
            ELSE IF ~Has(buf, pos + 12, 8) THEN Bad("error", pos + 12)
            ELSE IF vector.st # "ok" THEN vector
            ELSE R([ kind |-> "Fixed", vertex_buffer_common |-> common.v,
                     format |-> U32At(buf, pos + 8), elements |-> U32At(buf, pos + 12),
                     scale |-> U32At(buf, pos + 16), vector |-> vector.v ],
                   pos + 28)
    IN  Read(ReadVertexBufferCommon(buf, pos), read_inline_list(buf, pos + 20, "f32"))

\* VertexBuffer::from_reader: the discriminant, then the variant
VertexBufferFromReader(buf, pos, target) ==
    LET discriminant == U32At(buf, pos)
    IN  IF ~Has(buf, pos, 4) THEN Bad("error", pos)
        ELSE IF discriminant = VbAttribute
             THEN VertexBufferAttributeFromReader(buf, pos + 4)
        ELSE IF discriminant = VbInterleaved
             THEN VertexBufferInterleavedFromReader(buf, pos + 4, target)
        ELSE IF discriminant = VbFixed
             THEN VertexBufferFixedFromReader(buf, pos + 4)
        ELSE BadTag(discriminant, pos + 4)

\* the magic of Shape
ShapeMagic == 268435457 \* 0x10000001

\* an f32 stored as the word w compares equal to 0.0: +0.0 or -0.0
F32IsZero(w) == w = 0 \/ w = (0 - 2147483647) - 1

\* assert!(position_offset == Vec3::default())
PositionOffsetAssertedMutAny(buf, pos) == TRUE

PositionOffsetAsserted(buf, pos) ==
    /\ F32IsZero(U32At(buf, pos)) /\ F32IsZero(U32At(buf, pos + 4))
    /\ F32IsZero(U32At(buf, pos + 8))

\* Shape::from_reader
ShapeFromReader(buf, pos, target) ==
    LET bounding_box_ptr == PointerReadRelative(buf, pos + 28)
        Read(h, sub_meshes, vertex_buffers) ==
            IF ~Has(buf, pos, 4) THEN Bad("error", pos)
            ELSE IF U32At(buf, pos) # ShapeMagic THEN Bad("panic", pos + 4)
            ELSE IF h.st # "ok" THEN h
            ELSE IF ~Has(buf, pos + 24, 8) THEN Bad("error", pos + 24)
            ELSE IF bounding_box_ptr.v.some /\ ~Has(buf, bounding_box_ptr.v.v, 64)
                 THEN Bad("error", pos + 32)
            ELSE IF ~Has(buf, pos + 32, 12) THEN Bad("error", pos + 32)
            ELSE IF ~PositionOffsetAsserted(buf, pos + 32) THEN Bad("panic", pos + 44)
            ELSE IF sub_meshes.st # "ok" THEN sub_meshes
            ELSE IF ~Has(buf, pos + 52, 4) THEN Bad("error", pos + 52)
            ELSE IF vertex_buffers.st # "ok" THEN vertex_buffers
            ELSE R([ cgfx_object_header |-> h.v, flags |-> U32At(buf, pos + 24),
                     bounding_box |-> IF bounding_box_ptr.v.some
                                      THEN Some(Bytes(buf, bounding_box_ptr.v.v, 64))
                                      ELSE None,
                     position_offset |-> << U32At(buf, pos + 32), U32At(buf, pos + 36),
                                            U32At(buf, pos + 40) >>,
                     sub_meshes |-> sub_meshes.v,
                     base_address |-> U32At(buf, pos + 52),
                     vertex_buffers |-> vertex_buffers.v ],
                   pos + 64)
    IN  Read(ReadObjectHeader(buf, pos + 4),
             read_pointer_list(buf, pos + 44, "SubMesh", target),
             read_pointer_list(buf, pos + 56, "VertexBuffer", target))

\* read_dict_value of each element type
ReadObject(buf, pos, kind, target) ==
    IF kind = "Mesh" THEN MeshRead(buf, pos)
    ELSE IF kind = "Shape" THEN ShapeFromReader(buf, pos, target)
    ELSE IF kind = "SubMesh" THEN SubMeshFromReader(buf, pos, target)
    ELSE IF kind = "Face" THEN FaceFromReader(buf, pos, target)
    ELSE IF kind = "FaceDescriptor"
         THEN FaceDescriptorFromReader(buf, pos, target.endian, target.aligned,
                                       target.checked)
    ELSE IF kind = "VertexBuffer" THEN VertexBufferFromReader(buf, pos, target)
    ELSE VertexBufferAttributeFromReader(buf, pos)

---------------------------------------------------------------------------
(* Buffers for the low-level readers: p filler bytes, the helper's inline  *)
(* fields, then the bytes the pointers lead to.                            *)

Pad(p) == [k \in 1..p |-> 170]

\* "A\0", an invalid UTF-8 string, "BC\0", and a last byte with no NUL after it
StringTail == <<65, 0, 255, 0, 66, 67, 0, 9>>

ReadPositions == 0..MaxReadPos

RawPointers == {0, 1, 4, 6, 8, 11, AllOnes}

\* one pointer word at p, the tail right after it
PointerInputs ==
    {[buf |-> Pad(p) \o U32LE(raw) \o StringTail, pos |-> p] :
        p \in ReadPositions, raw \in RawPointers}

\* count and pointer word, the elements in the tail
InlineInputs ==
    {[buf |-> Pad(p) \o U32LE(count) \o U32LE(raw) \o StringTail, pos |-> p] :
        p \in ReadPositions, count \in 0..MaxCount, raw \in RawPointers}

ListMagic == 1073741825

\* count, list pointer, two object pointers, two objects each behind a magic word
PointerListInputs ==
    {[buf |-> Pad(p) \o U32LE(count) \o U32LE(lp) \o U32LE(o1) \o U32LE(o2)
              \o U32LE(ListMagic) \o U32LE(7) \o U32LE(ListMagic) \o U32LE(9),
      pos |-> p] :
        p \in ReadPositions, count \in 0..MaxCount, lp \in {0, 4, 8},
        o1 \in {0, 8, 12, 16}, o2 \in {0, 4, 12}}

\* one node record, the name strings in the tail
NodeInputs ==
    {[buf |-> Pad(p) \o U32LE(5) \o U16LE(1) \o U16LE(2) \o U32LE(np) \o U32LE(vp)
              \o StringTail,
      pos |-> p] :
        p \in ReadPositions, np \in {0, 8, 10, 12, 15, AllOnes}, vp \in {0, 4, 8, AllOnes}}

\* the image pointer, one ImageData record, the image bytes
ImageInputs ==
    {[buf |-> Pad(p) \o U32LE(raw) \o U32LE(8) \o U32LE(8) \o U32LE(len) \o U32LE(bp)
              \o U32LE(0) \o U32LE(4) \o U32LE(loc) \o U32LE(0) \o <<1, 2>>,
      pos |-> p] :
        p \in ReadPositions, raw \in {0, 4, 8, AllOnes}, len \in 0..MaxImageLen,
        bp \in {0, 20, 21}, loc \in {0, 1}}

IndexBytes == [k \in 1..MaxIndexBytes |-> (7 * k) % 5]

\* one FaceDescriptor record, the index bytes after it
FaceInputs ==
    {[buf |-> Pad(p) \o U32LE(format) \o <<4, 1, 0, 0>> \o U32LE(count) \o U32LE(raw)
              \o Zeros(24) \o U32LE(3) \o IndexBytes,
      pos |-> p] :
        p \in ReadPositions, format \in GlDataTypes \cup {0},
        count \in 0..MaxIndexBytes, raw \in {0, 32}}

---------------------------------------------------------------------------
(* Skeleton and model readers (skeleton.rs, model.rs).                     *)

\* the magic of CgfxSkeleton and the number of SkeletonScalingRule variants
SkeletonMagic == 33554432 \* 0x02000000
ScalingRules == 3

\* ensure!(dict.values_count == bone_count) and the two assert! of the model
CountAsserted(dict, count) == dict.values_count = count

\* CgfxSkeleton::from_reader
SkeletonFromReader(buf, pos) ==
    LET bone_count == U32At(buf, pos + 24)
        bone_ptr == PointerReadRelative(buf, pos + 28)
        root_bone == PointerReadRelative(buf, pos + 32)
        Read(h, bones) ==
            IF ~Has(buf, pos, 4) THEN Bad("error", pos)
            ELSE IF U32At(buf, pos) # SkeletonMagic THEN Bad("panic", pos + 4)
            ELSE IF h.st # "ok" THEN h
            ELSE IF ~Has(buf, pos + 24, 8) THEN Bad("error", pos + 24)
            ELSE IF ~bone_ptr.v.some THEN BadWhy("null", pos + 32)
            ELSE IF bones.st # "ok" THEN bones
            ELSE IF ~CountAsserted(bones.v, bone_count) THEN BadWhy("count", pos + 32)
            ELSE IF ~Has(buf, pos + 32, 4) THEN Bad("error", pos + 32)
            ELSE IF ~root_bone.v.some THEN BadWhy("null", pos + 36)
            ELSE IF ~Has(buf, pos + 36, 4) THEN Bad("error", pos + 36)
            ELSE IF U32At(buf, pos + 36) \notin 0..(ScalingRules - 1)
                 THEN Bad("error", pos + 36)
            ELSE IF ~Has(buf, pos + 40, 4) THEN Bad("error", pos + 40)
            ELSE R([ cgfx_object_header |-> h.v, bones |-> bones.v,
                     root_bone |-> root_bone.v.v,
                     scaling_rule |-> U32At(buf, pos + 36),
                     flags |-> U32At(buf, pos + 40) ],
                   pos + 44)
    IN  Read(ReadObjectHeader(buf, pos + 4), DictFromReader(buf, bone_ptr.v.v, "bone"))

\* the discriminants of CgfxModel
ModelStandard == 1073741842 \* 0x40000012
ModelSkeletal == 1073741970 \* 0x40000092

\* CgfxModel::from_reader: the common part is read first, the discriminant
\* is matched last
ModelFromReader(buf, pos, target) ==
    LET discriminant == U32At(buf, pos)
        material_count == U32At(buf, pos + 188)
        material_ptr == PointerReadRelative(buf, pos + 192)
        mesh_node_visibility_count == U32At(buf, pos + 204)
        mesh_node_visibility_ptr == PointerReadRelative(buf, pos + 208)
        skeleton_ptr == PointerReadRelative(buf, pos + 224)
        Read(h, meshes, materials, shapes, visibilities, skeleton) ==
            LET common ==
                    [ cgfx_object_header |-> h.v,
                      cgfx_node_header |->
                          [ branch_visible |-> U32At(buf, pos + 24),
                            is_branch_visible |-> U32At(buf, pos + 28),
                            child_count |-> U32At(buf, pos + 32),
                            children_pointer |-> PointerRead(buf, pos + 36).v,
                            anim_group_count |-> U32At(buf, pos + 40),
                            anim_group_pointer |-> PointerRead(buf, pos + 44).v ],
                      transform_node_header |-> Bytes(buf, pos + 48, 132),
                      meshes |-> meshes.v,
                      materials |-> IF material_ptr.v.some THEN Some(materials.v)
                                    ELSE None,
                      shapes |-> shapes.v,
                      mesh_node_visibilities |->
                          IF mesh_node_visibility_ptr.v.some THEN Some(visibilities.v)
                          ELSE None,
                      flags |-> U32At(buf, pos + 212),
                      face_culling |-> U32At(buf, pos + 216),
                      layer_id |-> U32At(buf, pos + 220) ]
            IN  IF ~Has(buf, pos, 4) THEN Bad("error", pos)
                ELSE IF h.st # "ok" THEN h
                ELSE IF ~Has(buf, pos + 24, 156) THEN Bad("error", pos + 24)
                ELSE IF meshes.st # "ok" THEN meshes
                ELSE IF ~Has(buf, pos + 188, 8) THEN Bad("error", pos + 188)
                ELSE IF material_ptr.v.some /\ materials.st # "ok" THEN materials
                ELSE IF material_ptr.v.some
                        /\ ~CountAsserted(materials.v, material_count)
                     THEN Bad("panic", pos + 196)
                ELSE IF shapes.st # "ok" THEN shapes
                ELSE IF ~Has(buf, pos + 204, 8) THEN Bad("error", pos + 204)
                ELSE IF mesh_node_visibility_ptr.v.some /\ visibilities.st # "ok"
                     THEN visibilities
                ELSE IF mesh_node_visibility_ptr.v.some
                        /\ ~CountAsserted(visibilities.v, mesh_node_visibility_count)
                     THEN Bad("panic", pos + 212)
                ELSE IF ~Has(buf, pos + 212, 12) THEN Bad("error", pos + 212)
                ELSE IF discriminant = ModelStandard
                     THEN R([kind |-> "Standard", common |-> common], pos + 224)
                ELSE IF discriminant = ModelSkeletal
                     THEN (IF ~Has(buf, pos + 224, 4) THEN Bad("error", pos + 224)
                           ELSE IF ~skeleton_ptr.v.some THEN BadWhy("null", pos + 228)
                           ELSE IF skeleton.st # "ok" THEN skeleton
                           ELSE R([ kind |-> "Skeletal", common |-> common,
                                    skeleton |-> skeleton.v ],
                                  pos + 228))
                ELSE BadTag(discriminant, pos + 224)
    IN  Read(ReadObjectHeader(buf, pos + 4),
             read_pointer_list(buf, pos + 180, "Mesh", target),
             DictFromReader(buf, material_ptr.v.v, "material"),
             read_pointer_list(buf, pos + 196, "Shape", target),
             DictFromReader(buf, mesh_node_visibility_ptr.v.v, "visibility"),
             SkeletonFromReader(buf, skeleton_ptr.v.v))

\* the builds and allocations the unsafe block of FaceDescriptor can run under
Targets == [endian : {"little", "big"}, aligned : BOOLEAN, checked : BOOLEAN]

\* an object header with no name and no metadata
ObjectBytes == <<83, 79, 66, 74>> \o Zeros(16)

\* the body of a VertexBufferAttribute with no raw bytes
AttributeBytes ==
    U32LE(0) \o U32LE(0) \o Zeros(8) \o Zeros(8) \o Zeros(8)
      \o U32LE(GlFloat) \o U32LE(3) \o U32LE(1065353216) \o U32LE(0)

\* a vertex buffer behind its discriminant; an interleaved one lists one
\* attribute, and any other discriminant is followed by an attribute body
VertexBufferBytes(disc) ==
    IF disc = VbFixed
    THEN U32LE(disc) \o Zeros(8) \o U32LE(GlFloat) \o U32LE(3) \o U32LE(1065353216)
           \o Zeros(8)
    ELSE IF disc = VbInterleaved
    THEN U32LE(disc) \o Zeros(8) \o Zeros(8) \o Zeros(8) \o Zeros(8) \o U32LE(12)
           \o U32LE(1) \o U32LE(4) \o U32LE(4) \o U32LE(VbAttribute) \o AttributeBytes
    ELSE U32LE(disc) \o AttributeBytes

\* the words of an f32: 0.0, -0.0, 1.0, the smallest subnormal and a NaN
FloatWords == {0, (0 - 2147483647) - 1, 1065353216, 1, 2143289344}

PositionOffsets ==
    {<<x, 0, 0>> : x \in FloatWords} \cup {<<0, 1065353216, 0>>, <<0, 0, 1>>}

\* A Shape record (64 bytes) and what it points to, every pointer relative:
\* the bounding box at 64, the pointer slots of the two lists at 128 and 132,
\* one SubMesh at 136 with one bone index, one Face at 164 and one
\* FaceDescriptor at 192 whose two index bytes are at 236, and one vertex
\* buffer at 240.
ShapeBytes(magic, offset, box, subs, vb, format) ==
    U32LE(magic) \o ObjectBytes \o U32LE(1) \o U32LE(IF box THEN 36 ELSE 0)
      \o U32LE(offset[1]) \o U32LE(offset[2]) \o U32LE(offset[3])
      \o U32LE(subs) \o U32LE(IF subs > 0 THEN 80 ELSE 0)
      \o U32LE(0)
      \o U32LE(IF vb.some THEN 1 ELSE 0) \o U32LE(IF vb.some THEN 72 ELSE 0)
      \o Zeros(64)
      \o U32LE(8) \o U32LE(108)
      \o U32LE(1) \o U32LE(16) \o U32LE(0) \o U32LE(1) \o U32LE(8)
      \o U32LE(7)
      \o U32LE(4)
      \o U32LE(1) \o U32LE(20) \o Zeros(8) \o Zeros(8)
      \o U32LE(4)
      \o U32LE(format) \o <<4, 1, 0, 0>> \o U32LE(2) \o U32LE(32) \o Zeros(24) \o U32LE(3)
      \o <<2, 4, 1, 3>>
      \o (IF vb.some THEN VertexBufferBytes(vb.v) ELSE <<>>)

ShapeInputs ==
    {[buf |-> Pad(p) \o ShapeBytes(magic, offset, box, subs, vb, format), pos |-> p] :
        p \in {0, MaxReadPos}, magic \in {ShapeMagic}, offset \in PositionOffsets,
        box \in BOOLEAN, subs \in {0, 1},
        vb \in {None, Some(VbAttribute), Some(VbInterleaved), Some(VbFixed), Some(5)},
        format \in {GlUByte, GlShort}}
      \cup {[buf |-> ShapeBytes(0, offset, FALSE, 0, None, GlUByte), pos |-> 0] :
               offset \in PositionOffsets}

\* vertex buffers of every variant and of no variant, and a buffer too short
\* to hold a discriminant
VertexBufferInputs ==
    {[buf |-> Pad(p) \o VertexBufferBytes(disc), pos |-> p] :
        p \in {0, MaxReadPos}, disc \in {VbAttribute, VbInterleaved, VbFixed, 0, 5, AllOnes}}
      \cup {[buf |-> <<1, 0>>, pos |-> 0]}

\* which of the six image slots of a texture input hold a pointer
SlotPatterns ==
    {[k \in 1..6 |-> TRUE], [k \in 1..6 |-> FALSE]}
      \cup {[k \in 1..6 |-> k # z] : z \in 1..6}

\* A texture record: the discriminant, the common part (52 bytes), six
\* pointer slots at 56 and, at 80, the one ImageData every slot points to,
\* followed by its two image bytes.  An Image texture reads the first slot.
TextureBytes(disc, slots) ==
    U32LE(disc) \o ObjectBytes \o U32LE(8) \o U32LE(8) \o Zeros(20) \o U32LE(2)
      \o U32LE(IF slots[1] THEN 24 ELSE 0) \o U32LE(IF slots[2] THEN 20 ELSE 0)
      \o U32LE(IF slots[3] THEN 16 ELSE 0) \o U32LE(IF slots[4] THEN 12 ELSE 0)
      \o U32LE(IF slots[5] THEN 8 ELSE 0) \o U32LE(IF slots[6] THEN 4 ELSE 0)
      \o U32LE(8) \o U32LE(8) \o U32LE(2) \o U32LE(20) \o U32LE(0) \o U32LE(4)
      \o U32LE(0) \o U32LE(0) \o <<1, 2>>

TextureInputs ==
    {[buf |-> Pad(p) \o TextureBytes(disc, slots), pos |-> p] :
        p \in {0, MaxReadPos}, disc \in {TexCube, TexImage, 3, AllOnes},
        slots \in SlotPatterns}

\* a dictionary of one value: the root node and one node, whose value (if
\* any) follows the node records
DictBytes(value) ==
    <<68, 73, 67, 84>> \o U32LE(44 + Len(value)) \o U32LE(1)
      \o U32LE(AllOnes) \o <<1, 0, 0, 0>> \o Zeros(8)
      \o U32LE(0) \o <<0, 0, 1, 0>> \o U32LE(0) \o U32LE(IF value = <<>> THEN 0 ELSE 4)
      \o value

\* what the skeleton of a model input is: absent, well-formed, or with one
\* field spoilt
SkeletonKinds == {"null", "ok", "nobones", "noroot", "count", "magic", "rule"}

\* A CgfxSkeleton record (44 bytes) followed by its bone dictionary, which
\* holds one all-zero bone
SkeletonBytes(skel) ==
    U32LE(IF skel = "magic" THEN 0 ELSE SkeletonMagic) \o ObjectBytes
      \o U32LE(IF skel = "count" THEN 2 ELSE 1)
      \o U32LE(IF skel = "nobones" THEN 0 ELSE 16)
      \o U32LE(IF skel = "noroot" THEN 0 ELSE 56)
      \o U32LE(IF skel = "rule" THEN ScalingRules ELSE 1) \o U32LE(0)
      \o DictBytes(Zeros(220))

\* A CgfxModel record (228 bytes) and what it points to, every pointer
\* relative: the material dictionary at 228 (one node without a value), the
\* visibility dictionary at 272 (one value), the skeleton at 324, the pointer
\* slot of the meshes at 632 and one Mesh at 636, the pointer slot of the
\* shapes at 680 and one Shape at 684.
ModelBytes(disc, mat, vis, skel, shape) ==
    U32LE(disc) \o ObjectBytes
      \o U32LE(1) \o U32LE(1) \o Zeros(16)
      \o Zeros(132)
      \o U32LE(IF shape.some THEN 1 ELSE 0) \o U32LE(IF shape.some THEN 448 ELSE 0)
      \o U32LE(mat.count) \o U32LE(IF mat.ptr THEN 36 ELSE 0)
      \o U32LE(IF shape.some THEN 1 ELSE 0) \o U32LE(IF shape.some THEN 480 ELSE 0)
      \o U32LE(vis.count) \o U32LE(IF vis.ptr THEN 64 ELSE 0)
      \o U32LE(0) \o U32LE(1) \o U32LE(0)
      \o U32LE(IF skel = "null" THEN 0 ELSE 100)
      \o DictBytes(<<>>)
      \o DictBytes(U32LE(0) \o U32LE(1))
      \o SkeletonBytes(skel)
      \o U32LE(4) \o U32LE(MeshMagic) \o ObjectBytes \o Zeros(20)
      \o U32LE(4)
      \o (IF shape.some
          THEN ShapeBytes(ShapeMagic, shape.v, FALSE, 1, Some(VbInterleaved), GlUByte)
          ELSE <<>>)

\* the count field of a model beside its dictionary of one value
CountedPointers ==
    {[count |-> 0, ptr |-> FALSE], [count |-> 1, ptr |-> FALSE],
     [count |-> 1, ptr |-> TRUE], [count |-> 2, ptr |-> TRUE]}

ModelInputs ==
    {[buf |-> ModelBytes(disc, mat, vis, skel, shape), pos |-> 0] :
        disc \in {ModelSkeletal}, mat \in CountedPointers, vis \in CountedPointers,
        skel \in SkeletonKinds, shape \in {None, Some(<<0, 0, 0>>)}}
      \cup {[buf |-> Pad(p) \o ModelBytes(disc, mat, vis, "ok", shape), pos |-> p] :
               p \in {0, MaxReadPos}, disc \in {ModelStandard, 7, AllOnes},
               mat \in CountedPointers, vis \in CountedPointers,
               shape \in {None, Some(<<0, 0, 0>>), Some(<<1065353216, 0, 0>>)}}

---------------------------------------------------------------------------
(* The state machine of the low-level readers: one helper is run on a      *)
(* reader positioned at pos in buf; res is what it returned and where it   *)
(* left the cursor.                                                        *)

Ran(op, in, kind, res) ==
    [op |-> op, buf |-> in.buf, pos |-> in.pos, kind |-> kind, res |-> res]

\* brw_relative_pointer()
ReadRelativePointer ==
    /\ rd = NoReader
    /\ \E in \in PointerInputs :
        rd' = Ran("relative", in, "none", brw_relative_pointer(in.buf, in.pos))
    /\ UNCHANGED <<file, fileKind, ctr, origin, args, out, base, wr>>

\* CgfxBox::<T>::read_options()
ReadBox ==
    /\ rd = NoReader
    /\ \E in \in PointerInputs, kind \in {"u8", "u32"} :
        rd' = Ran("box", in, kind, CgfxBoxRead(in.buf, in.pos, kind))
    /\ UNCHANGED <<file, fileKind, ctr, origin, args, out, base, wr>>

\* brw_read_string()
ReadString ==
    /\ rd = NoReader
    /\ \E in \in PointerInputs :
        rd' = Ran("string", in, "none", brw_read_string(in.buf, in.pos))
    /\ UNCHANGED <<file, fileKind, ctr, origin, args, out, base, wr>>

\* read_inline_list::<T>()
ReadInlineList ==
    /\ rd = NoReader
    /\ \E in \in InlineInputs, kind \in {"u8", "u32"} :
        rd' = Ran("inline", in, kind, read_inline_list(in.buf, in.pos, kind))
    /\ UNCHANGED <<file, fileKind, ctr, origin, args, out, base, wr>>

\* read_pointer_list_ext::<u32>(magic)
ReadPointerList ==
    /\ rd = NoReader
    /\ \E in \in PointerListInputs, magic \in {None, Some(ListMagic)} :
        rd' = [Ran("list", in, "u32", read_pointer_list_ext(in.buf, in.pos, "u32", magic))
                  EXCEPT !.kind = IF magic.some THEN "magic" ELSE "u32"]
    /\ UNCHANGED <<file, fileKind, ctr, origin, args, out, base, wr>>

\* CgfxNode::<()>::from_reader()
ReadNode ==
    /\ rd = NoReader
    /\ \E in \in NodeInputs :
        rd' = Ran("node", in, "unit", NodeFromReader(in.buf, in.pos, "unit"))
    /\ UNCHANGED <<file, fileKind, ctr, origin, args, out, base, wr>>

\* image_data()
ReadImage ==
    /\ rd = NoReader
    /\ \E in \in ImageInputs :
        rd' = Ran("image", in, "none", image_data(in.buf, in.pos))
    /\ UNCHANGED <<file, fileKind, ctr, origin, args, out, base, wr>>

\* FaceDescriptor::from_reader() on one of the targets the crate builds for
ReadFaceDescriptor ==
    /\ rd = NoReader
    /\ \E in \in FaceInputs, endian \in {"little", "big"}, aligned, checked \in BOOLEAN :
        rd' = Ran("face", in, endian,
                  FaceDescriptorFromReader(in.buf, in.pos, endian, aligned, checked))
    /\ UNCHANGED <<file, fileKind, ctr, origin, args, out, base, wr>>

\* Shape::from_reader()
ReadShape ==
    /\ rd = NoReader
    /\ \E in \in ShapeInputs, target \in Targets :
        rd' = Ran("shape", in, target.endian, ShapeFromReader(in.buf, in.pos, target))
    /\ UNCHANGED <<file, fileKind, ctr, origin, args, out, base, wr>>

\* VertexBuffer::from_reader()
ReadVertexBuffer ==
    /\ rd = NoReader
    /\ \E in \in VertexBufferInputs, target \in Targets :
        rd' = Ran("vertexbuffer", in, target.endian,
                  VertexBufferFromReader(in.buf, in.pos, target))
    /\ UNCHANGED <<file, fileKind, ctr, origin, args, out, base, wr>>

\* CgfxTexture::from_reader()
ReadTexture ==
    /\ rd = NoReader
    /\ \E in \in TextureInputs :
        rd' = Ran("texture", in, "none", TextureFromReader(in.buf, in.pos))
    /\ UNCHANGED <<file, fileKind, ctr, origin, args, out, base, wr>>

\* CgfxModel::from_reader()
ReadModel ==
    /\ rd = NoReader
    /\ \E in \in ModelInputs, target \in Targets :
        rd' = Ran("model", in, target.endian, ModelFromReader(in.buf, in.pos, target))
    /\ UNCHANGED <<file, fileKind, ctr, origin, args, out, base, wr>>

NextRead ==
    \/ ReadRelativePointer \/ ReadBox \/ ReadString \/ ReadInlineList
    \/ ReadPointerList \/ ReadNode \/ ReadImage \/ ReadFaceDescriptor
    \/ ReadShape \/ ReadModel \/ ReadTexture \/ ReadVertexBuffer

SpecRead == Init /\ [][NextRead]_vars

---------------------------------------------------------------------------
(* The state machine of the dictionary writer: CgfxDict::to_writer is run  *)
(* on a writer that already holds `start` bytes.                           *)

Sentinel ==
    [ reference_bit |-> AllOnes, left_node_index |-> 1, right_node_index |-> 0,
      name |-> None, value_pointer |-> None, value |-> None ]

MkNode(name, value) ==
    [ reference_bit |-> 6, left_node_index |-> 0, right_node_index |-> 1,
      name |-> name, value_pointer |-> None, value |-> value ]

\* the nodes of a CgfxDict<()> and of a CgfxDict<CgfxTexture>
UnitNodes == {MkNode(name, value) : name \in {None, Some(<<97>>)}, value \in {None, Some(Unit)}}

TextureNodes ==
    {MkNode(name, value) :
        name \in {None, Some(<<97>>)},
        value \in {None, Some(MkTexture(None, None)),
                    Some(MkTexture(Some(<<97>>), Some(MkImage(<<1, 2>>)))),
                    Some(MkCube(None))}}

NodeLists ==
    {<<>>, <<Sentinel>>}
      \cup {<<Sentinel, n>> : n \in UnitNodes \cup TextureNodes}
      \cup {<<Sentinel, n, m>> : n \in UnitNodes, m \in UnitNodes}
      \cup {<<Sentinel, n, m>> : n \in TextureNodes, m \in TextureNodes}

\* dictionaries whose values_count agrees with their nodes, is one more, is 0
\* or is 0xFFFFFFFF
Dicts ==
    {[magic_number |-> DICT, tree_length |-> 0, values_count |-> vc, nodes |-> ns] :
        ns \in NodeLists, vc \in {0, 1, 2, 3, AllOnes}}

\* CgfxDict::to_writer()
WriteDict ==
    /\ wr = NoWriter
    /\ \E d \in Dicts, start \in {0, 156}, overflow_checks \in BOOLEAN :
        wr' = [ op |-> "dict", dict |-> d, start |-> start,
                overflow_checks |-> overflow_checks,
                res |-> DictToWriter(Put(NewWriter, Zeros(start)), d, overflow_checks) ]
    /\ UNCHANGED <<file, fileKind, ctr, origin, args, out, rd, base>>

NextWrite == WriteDict

SpecWrite == Init /\ [][NextWrite]_vars

---------------------------------------------------------------------------
(* What the claims speak of, read off the state.                           *)

\* the output of to_buffer for the container of the state, phase by phase
StringsEnd(c) ==
    Len(WriteStrings(WriteMainContent(WriteHeaderAndTable(c, None), c,
                                      Len(HeaderBytes(c.header)))).out)

\* offset of the IMAG tag in a returned buffer: the image section ends the file
ImagOffset(c, bytes) == Len(bytes) - Len(Emitted(c, None).image_section) - 8

AllSlotsNone(c) == \A i \in 1..Slots : c.dicts[i] = None

IsSentinel(node) ==
    node.reference_bit = AllOnes /\ node.name = None /\ node.value = None

---------------------------------------------------------------------------
(* C1: texture round trip.  For every well-formed file b whose only        *)
(* dictionary is textures (one or more Image2D textures, node records      *)
(* contiguous), CgfxContainer::new(b) succeeds and to_buffer on the result *)
(* returns b byte for byte.                                                *)
C1_RoundTrip ==
    (origin = "parse" /\ fileKind \in {"one", "prefix", "two"})
        => /\ ctr.ok
           /\ (out # NoResult => out = Ok(file))

---------------------------------------------------------------------------
(* C2: empty container.  As claimed: for the 160-byte input with all 16    *)
(* slots zero, parse succeeds with every slot None and serialize of the    *)
(* parsed container reproduces exactly those 160 bytes.                    *)
C2_Original ==
    (origin = "parse" /\ fileKind = "empty160")
        => /\ ctr.ok /\ AllSlotsNone(ctr.v)
           /\ (out # NoResult => out = Ok(file))

(* C2 as amended: parse of the 160-byte input succeeds with every slot     *)
(* None, but serialize never reproduces it: it emits 256 bytes (the 156    *)
(* bytes of header and table, 92 zero bytes, the IMAG tag and the length   *)
(* 8) and returns them only if header.file_length is 256, panicking        *)
(* otherwise.  The 256-byte empty container is the one that round-trips.   *)
C2_Amended ==
    (origin = "parse" /\ fileKind \in {"empty160", "empty"})
        => /\ ctr.ok /\ AllSlotsNone(ctr.v)
           /\ (out # NoResult =>
                 IF ctr.v.header.file_length = 256
                 THEN /\ out.ok /\ Len(out.v) = 256
                      /\ out.v = Bytes(file, 0, 156) \o Zeros(92) \o IMAG \o U32LE(8)
                 ELSE out = Panic)
           /\ (fileKind = "empty" /\ out # NoResult => out = Ok(file))

C2_Witness ==
    /\ origin = "parse" /\ fileKind = "empty160" /\ Len(file) = 160
    /\ ctr.ok /\ out = Panic

---------------------------------------------------------------------------
(* C3: image-section alignment.  In every buffer returned by to_buffer the *)
(* IMAG tag starts at an offset o with (o + 8) mod 128 = 0; between the    *)
(* end n of the string section and the tag lie                             *)
(* pad = ((-n - 8) mod 128 + 128) mod 128 zero bytes, pad is in 0..127 and *)
(* is 0 exactly when (n + 8) mod 128 = 0.                                  *)
C3_Alignment ==
    out.ok =>
        LET n == StringsEnd(ctr.v)
            o == ImagOffset(ctr.v, out.v)
            pad == o - n
        IN  /\ Bytes(out.v, o, 4) = IMAG
            /\ (o + 8) % 128 = 0
            /\ pad = (((0 - n - 8) % 128) + 128) % 128
            /\ pad \in 0..127
            /\ (pad = 0 <=> (n + 8) % 128 = 0)
            /\ \A k \in (n + 1)..o : out.v[k] = 0

C3_Witness ==
    /\ out.ok /\ origin = "single"
    /\ (StringsEnd(ctr.v) + 8) % 128 = 0
    /\ ImagOffset(ctr.v, out.v) = StringsEnd(ctr.v)

---------------------------------------------------------------------------
(* C4: slot invariant.  In any container returned by parse, for every one  *)
(* of the 16 slots the dictionary is present if and only if the slot's     *)
(* on-disk count is greater than 0, and when present it has exactly        *)
(* count + 1 nodes.                                                        *)
C4_SlotInvariant ==
    (origin = "parse" /\ ctr.ok) =>
        \A i \in 0..(Slots - 1) :
            /\ ctr.v.dicts[i + 1].some <=> SlotCount(file, i) > 0
            /\ ctr.v.dicts[i + 1].some
                 => Len(ctr.v.dicts[i + 1].v.nodes) = SlotCount(file, i) + 1

---------------------------------------------------------------------------
(* C5: sentinel invariant.  As claimed: node 0 of every dictionary held by *)
(* a container that parse returned or from_single_texture built has        *)
(* reference_bit 0xFFFFFFFF, no name and no value.                         *)
C5_Original ==
    (origin \in {"parse", "single"} /\ ctr.ok) =>
        \A i \in 1..Slots :
            ctr.v.dicts[i].some => IsSentinel(ctr.v.dicts[i].v.nodes[1])

(* C5 as amended: node 0 of the dictionary from_single_texture builds is   *)
(* the sentinel; node 0 of a dictionary that parse returned is the first   *)
(* node record of the file verbatim (its reference bit is the word stored  *)
(* there, its name and value are present exactly when the record's name    *)
(* and value pointers are non-zero), so it is the sentinel exactly when    *)
(* the file's first record is one.                                         *)
C5_Amended ==
    /\ (origin = "single" /\ ctr.ok) => IsSentinel(ctr.v.dicts[2].v.nodes[1])
    /\ (origin = "parse" /\ ctr.ok) =>
          \A i \in 1..Slots :
              ctr.v.dicts[i].some =>
                  LET at == SlotPointer(file, i - 1).v + 12
                      node == ctr.v.dicts[i].v.nodes[1]
                  IN  /\ node.reference_bit = U32At(file, at)
                      /\ node.name.some <=> U32At(file, at + 8) # 0
                      /\ node.value.some <=> U32At(file, at + 12) # 0
                      /\ IsSentinel(node) <=>
                            /\ U32At(file, at) = AllOnes
                            /\ U32At(file, at + 8) = 0 /\ U32At(file, at + 12) = 0

C5_Witness ==
    /\ origin = "parse" /\ ctr.ok
    /\ \E i \in 1..Slots :
          ctr.v.dicts[i].some /\ ctr.v.dicts[i].v.nodes[1].reference_bit = 5

---------------------------------------------------------------------------
(* C6: header lengths.  As claimed: to_buffer returns a buffer only when   *)
(* header.file_length equals the number of bytes emitted and               *)
(* header.content_length matches the emitted content (the data section,    *)
(* from the DATA magic at offset 20 up to the IMAG tag).                   *)
C6_Original ==
    out.ok =>
        /\ ctr.v.header.file_length = Len(out.v)
        /\ ctr.v.header.content_length = ImagOffset(ctr.v, out.v) - 20

(* C6 as amended: to_buffer returns a buffer only when header.file_length  *)
(* equals the number of bytes emitted, and panics on its final assertion   *)
(* otherwise; header.content_length is written as it is given and is       *)
(* compared with nothing.                                                  *)
C6_Amended ==
    /\ out.ok =>
          /\ ctr.v.header.file_length = Len(out.v)
          /\ U32At(out.v, 24) = ctr.v.header.content_length
    /\ (out # NoResult /\ ctr.v.header.file_length # Len(Emitted(ctr.v, None).out))
          => out = Panic
    /\ (out # NoResult /\ Emitted(ctr.v, None).st = "ok"
          /\ ctr.v.header.file_length = Len(Emitted(ctr.v, None).out))
          => out.ok

C6_Witness ==
    /\ out.ok
    /\ ctr.v.header.content_length # ImagOffset(ctr.v, out.v) - 20

---------------------------------------------------------------------------
---------------------------------------------------------------------------
(* What the reader claims speak of: the raw word stored at an offset, the  *)
(* offset it leads to, and the size of each helper's inline fields.        *)

RawAt(p) == U32At(rd.buf, p)

Target(p) == p + Unsigned(RawAt(p))

InlineSize(op) ==
    IF op \in {"box", "string", "image"} THEN 4
    ELSE IF op \in {"inline", "list"} THEN 8
    ELSE 16

\* res is the outcome of fetching `fetched` through a pointer: its failure,
\* or its value wrapped
Fetched(res, fetched, wrapped) ==
    IF fetched.st = "ok" THEN res.st = "ok" /\ res.v = wrapped
    ELSE res.st = fetched.st

\* the objects of a pointer list whose slots start at `slots`, nulls skipped
ListObjects(slots, count, skip) ==
    LET present == SelectSeq([k \in 1..count |-> slots + 4 * (k - 1)],
                             LAMBDA s : RawAt(s) # 0)
    IN  [k \in 1..Len(present) |-> U32At(rd.buf, Target(present[k]) + skip)]

---------------------------------------------------------------------------
(* C8: every relative pointer whose raw 32-bit word is 0 is read as None,  *)
(* at whatever offset p it is stored, and a non-zero raw word r stored at  *)
(* p is resolved to the offset p + r: the pointer of brw_relative_pointer, *)
(* the box, string, image and list pointers, the object pointers of a      *)
(* pointer list and the name and value pointers of a dictionary node.      *)
C8_PointerNullity ==
    /\ rd.op = "relative" =>
          rd.res = R(IF RawAt(rd.pos) = 0 THEN None
                     ELSE Some(rd.pos + RawAt(rd.pos)), rd.pos + 4)
    /\ rd.op = "box" =>
          IF RawAt(rd.pos) = 0 THEN rd.res = R(None, rd.pos + 4)
          ELSE LET e == ReadElem(rd.buf, Target(rd.pos), rd.kind)
               IN  Fetched(rd.res, e, Some(e.v))
    /\ rd.op = "string" =>
          IF RawAt(rd.pos) = 0 THEN rd.res = R(None, rd.pos + 4)
          ELSE LET str == read_string(rd.buf, Target(rd.pos))
               IN  Fetched(rd.res, str, Some(str.v))
    /\ rd.op = "image" =>
          IF RawAt(rd.pos) = 0 THEN rd.res = R(None, rd.pos + 4)
          ELSE LET d == ReadImageData(rd.buf, Target(rd.pos))
               IN  /\ Fetched(rd.res, d, Some(d.v))
                   /\ rd.res.st = "ok" =>
                         /\ RawAt(Target(rd.pos) + 12) # 0
                         /\ rd.res.v.v.image_bytes
                              = Bytes(rd.buf, Target(Target(rd.pos) + 12),
                                      RawAt(Target(rd.pos) + 8))
    /\ rd.op = "inline" =>
          IF RawAt(rd.pos + 4) = 0 THEN rd.res = R(<<>>, rd.pos + 8)
          ELSE LET es == ReadElems(rd.buf, Target(rd.pos + 4), rd.kind,
                                   RawAt(rd.pos), <<>>)
               IN  Fetched(rd.res, es, es.v)
    /\ rd.op = "list" =>
          IF RawAt(rd.pos + 4) = 0 THEN rd.res = R(<<>>, rd.pos + 8)
          ELSE rd.res.st = "ok" =>
                  rd.res.v = ListObjects(Target(rd.pos + 4), RawAt(rd.pos),
                                         IF rd.kind = "magic" THEN 4 ELSE 0)
    /\ (rd.op = "node" /\ rd.res.st = "ok") =>
          /\ rd.res.v.name = IF RawAt(rd.pos + 8) = 0 THEN None
                             ELSE Some(read_string(rd.buf, Target(rd.pos + 8)).v)
          /\ rd.res.v.value_pointer = IF RawAt(rd.pos + 12) = 0 THEN None
                                      ELSE Some(Target(rd.pos + 12))

\* a node read at the largest offset: its name pointer is followed, its
\* value pointer is null
C8_Witness ==
    /\ rd.op = "node" /\ rd.pos = MaxReadPos /\ rd.res.st = "ok"
    /\ RawAt(rd.pos + 8) # 0 /\ rd.res.v.name = Some(<<66, 67>>)
    /\ RawAt(rd.pos + 12) = 0 /\ rd.res.v.value_pointer = None

---------------------------------------------------------------------------
(* C9: after a read helper that seeks elsewhere (box, string by pointer,   *)
(* image data, inline list, pointer list, node) returns, normally or with  *)
(* an error from what it fetched, the cursor is just after the helper's    *)
(* inline fields.                                                          *)
C9_CursorRestored ==
    (/\ rd.op \in {"box", "string", "image", "inline", "list", "node"}
     /\ Has(rd.buf, rd.pos, InlineSize(rd.op))
     /\ rd.res.st \in {"ok", "error"})
        => rd.res.pos = rd.pos + InlineSize(rd.op)

---------------------------------------------------------------------------
(* C10: a parsed FaceDescriptor with inline bytes raw has indices = raw    *)
(* (each byte zero-extended) when the format is Byte or UByte; when it is  *)
(* Short or UShort, len(raw) is even, len(indices) = len(raw) / 2 and      *)
(* indices[k] = raw[2k] + 256 * raw[2k + 1].                               *)
C10_IndexWidening ==
    (rd.op = "face" /\ rd.res.st = "ok") =>
        LET raw == IF RawAt(rd.pos + 12) = 0 THEN <<>>
                   ELSE Bytes(rd.buf, Target(rd.pos + 12), RawAt(rd.pos + 8))
            indices == rd.res.v.indices
        IN  IF byte_size(RawAt(rd.pos)) = 1 THEN indices = raw
            ELSE /\ Len(raw) % 2 = 0
                 /\ Len(indices) = Len(raw) \div 2
                 /\ \A k \in 1..Len(indices) :
                       indices[k] = raw[2 * k - 1] + 256 * raw[2 * k]

---------------------------------------------------------------------------
(* C11: parsing a FaceDescriptor whose format word is readable and is not  *)
(* Byte, UByte, Short or UShort returns an error value to the caller (it   *)
(* does not panic), and no FaceDescriptor is produced.                     *)
C11_FormatRejected ==
    (/\ rd.op = "face" /\ Has(rd.buf, rd.pos, 4)
     /\ RawAt(rd.pos) \notin {GlByte, GlUByte, GlShort, GlUShort})
        => rd.res.st = "error"

---------------------------------------------------------------------------
(* C12: every Shape that Shape::from_reader returns has position_offset    *)
(* (0, 0, 0), each component comparing equal to 0.0 as an f32; an input    *)
(* whose position_offset has a component that is not zero yields no Shape. *)
C12_PositionOffset ==
    rd.op = "shape" =>
        /\ rd.res.st = "ok" =>
              /\ \A k \in 1..3 : F32IsZero(rd.res.v.position_offset[k])
              /\ \A k \in 1..3 : F32IsZero(U32At(rd.buf, rd.pos + 32 + 4 * (k - 1)))
        /\ (\E k \in 1..3 : ~F32IsZero(U32At(rd.buf, rd.pos + 32 + 4 * (k - 1))))
              => rd.res.st # "ok"

\* a shape with a sub mesh, a bounding box and an interleaved vertex buffer
\* is returned
C12_Witness ==
    /\ rd.op = "shape" /\ rd.res.st = "ok"
    /\ Len(rd.res.v.sub_meshes) = 1 /\ rd.res.v.bounding_box.some
    /\ Len(rd.res.v.vertex_buffers) = 1
    /\ rd.res.v.vertex_buffers[1].kind = "Interleaved"
    /\ rd.res.v.sub_meshes[1].faces[1].face_descriptors[1].indices = <<1026>>


---------------------------------------------------------------------------
(* C13: missing mandatory pointer of a skeletal model.  When a model with  *)
(* discriminant 0x40000092 is parsed and its common part is readable, a    *)
(* zero skeleton pointer makes the read return an error value saying the   *)
(* pointer is null; so does a zero bone-dictionary pointer of a skeleton   *)
(* whose magic and header are readable, and a zero root-bone pointer of a  *)
(* skeleton whose bone dictionary is readable and agrees with its count.   *)
(* No model is returned in any of the three cases.                         *)

\* the same bytes with the discriminant of a standard model
AsStandard(buf, pos) ==
    [i \in 1..Len(buf) |->
        IF i \in (pos + 1)..(pos + 4) THEN U32LE(ModelStandard)[i - pos] ELSE buf[i]]

IsNullError(res) ==
    res.st = "error" /\ "why" \in DOMAIN res /\ res.why = "null"

SkeletonPrefixReadable(buf, sk) ==
    /\ Has(buf, sk, 4) /\ U32At(buf, sk) = SkeletonMagic
    /\ ReadObjectHeader(buf, sk + 4).st = "ok"
    /\ Has(buf, sk + 24, 8)

BonesReadable(buf, sk) ==
    LET Check(bones) == bones.st = "ok" /\ bones.v.values_count = U32At(buf, sk + 24)
    IN  /\ U32At(buf, sk + 28) # 0
        /\ Check(DictFromReader(buf, PointerReadRelative(buf, sk + 28).v.v, "bone"))

C13_MissingPointer ==
    (rd.op = "model" /\ U32At(rd.buf, rd.pos) = ModelSkeletal) =>
        \A target \in Targets :
            LET Check(res, common) ==
                    (target.endian = rd.kind /\ rd.res = res /\ common.st = "ok") =>
                        LET sk == rd.pos + 224 + U32At(rd.buf, rd.pos + 224)
                        IN  /\ U32At(rd.buf, rd.pos + 224) = 0 => IsNullError(rd.res)
                            /\ ( /\ U32At(rd.buf, rd.pos + 224) # 0
                                 /\ SkeletonPrefixReadable(rd.buf, sk)
                                 /\ U32At(rd.buf, sk + 28) = 0 ) => IsNullError(rd.res)
                            /\ ( /\ U32At(rd.buf, rd.pos + 224) # 0
                                 /\ SkeletonPrefixReadable(rd.buf, sk)
                                 /\ BonesReadable(rd.buf, sk)
                                 /\ U32At(rd.buf, sk + 32) = 0 ) => IsNullError(rd.res)
            IN  Check(ModelFromReader(rd.buf, rd.pos, target),
                      ModelFromReader(AsStandard(rd.buf, rd.pos), rd.pos, target))

\* a skeletal model whose skeleton and bone dictionary are there but whose
\* root-bone pointer is zero was refused with the null error
C13_Witness ==
    /\ rd.op = "model" /\ U32At(rd.buf, rd.pos) = ModelSkeletal
    /\ U32At(rd.buf, rd.pos + 224) # 0
    /\ LET sk == rd.pos + 224 + U32At(rd.buf, rd.pos + 224)
       IN  /\ SkeletonPrefixReadable(rd.buf, sk) /\ BonesReadable(rd.buf, sk)
           /\ U32At(rd.buf, sk + 32) = 0
    /\ IsNullError(rd.res) /\ rd.res.pos = rd.pos + 224 + U32At(rd.buf, rd.pos + 224) + 36

---------------------------------------------------------------------------
(* C14: cube texture read.  As claimed: a texture with discriminant        *)
(* 0x20000009 is read with six image slots; if any of the six image        *)
(* pointers is zero the read returns an error value (UnexpectedNull) and   *)
(* no texture.                                                             *)
C14_CubeRead ==
    (rd.op = "texture" /\ U32At(rd.buf, rd.pos) = TexCube) =>
        IF \E k \in 0..5 : U32At(rd.buf, rd.pos + 56 + 4 * k) = 0
        THEN rd.res.st = "error"
        ELSE rd.res.st = "ok" /\ rd.res.v.kind = "Cube" /\ Len(rd.res.v.images) = 6

---------------------------------------------------------------------------
(* C15: corrupted magic.  As claimed: parse of a buffer whose first four   *)
(* bytes are not "CGFX", or whose data-section magic is not "DATA",        *)
(* returns an error (MalformedHeader) and no container.                    *)
C15_MalformedHeader ==
    (origin = "parse" /\ (Bytes(file, 0, 4) # CGFX \/ Bytes(file, 20, 4) # DATA))
        => ctr = [ok |-> FALSE, how |-> "error"]

---------------------------------------------------------------------------
(* C16: cube write.  As claimed: to_buffer on a container holding a Cube   *)
(* texture returns an "unsupported" error value and no buffer.             *)
C16_CubeWrite ==
    (origin = "single" /\ ctr.ok /\ args.texture.kind = "Cube" /\ out # NoResult)
        => out = Err

---------------------------------------------------------------------------
(* C17: prefix match in debug mode.                                        *)

\* bytes is b[0 .. len(bytes)]
IsPrefix(bytes, b) == Len(bytes) <= Len(b) /\ SubSeq(b, 1, Len(bytes)) = bytes

\* the bytes emitted when each section of to_buffer_debug is complete
AtHeader(c) == HeaderBytes(c.header)

AtDictContent(c) ==
    WriteMainContent(WriteHeaderAndTable(c, None), c, Len(HeaderBytes(c.header)))

AtStrings(c) == WriteStrings(AtDictContent(c))

AtPadding(c) == WritePadding(AtStrings(c))

\* the bytes compared by the second assert_matching!: after the padding and
\* the image-reference fixups
AtFixups(c) ==
    LET Fix(w) == ApplyImageReferences(w, w.image_references, Len(w.out) + 8)
    IN  Fix(AtPadding(c))

(* C17 as claimed: with to_buffer_debug(Some(b)), the bytes emitted at the *)
(* completion of each section (header, dictionary content, string section, *)
(* padding, image section) equal the prefix of b of the same length, and a *)
(* returned buffer out is b[0 .. len(out)].                                *)
C17_Original ==
    (base.some /\ base.out.ok) =>
        /\ IsPrefix(AtHeader(ctr.v), base.v)
        /\ IsPrefix(AtDictContent(ctr.v).out, base.v)
        /\ IsPrefix(AtStrings(ctr.v).out, base.v)
        /\ IsPrefix(AtPadding(ctr.v).out, base.v)
        /\ IsPrefix(base.out.v, base.v)

(* C17 as amended: to_buffer_debug(Some(b)) compares the bytes emitted     *)
(* with the prefix of b at three points only: after the header, after the  *)
(* padding and the image-reference fixups, and after the image section.    *)
(* It returns exactly when to_buffer returns and the returned bytes are a  *)
(* prefix of b, it then returns the same bytes, and it panics when         *)
(* to_buffer returns bytes that are not a prefix of b.  The bytes at the   *)
(* completion of the dictionary content and of the string section, whose   *)
(* pointers are patched later, are compared with nothing.                  *)
C17_Amended ==
    base.some =>
        LET Check(plain) ==
                /\ base.out.ok =>
                      /\ base.out = plain
                      /\ IsPrefix(base.out.v, base.v)
                      /\ IsPrefix(AtHeader(ctr.v), base.v)
                      /\ IsPrefix(AtFixups(ctr.v).out, base.v)
                /\ (plain.ok /\ IsPrefix(plain.v, base.v)) => base.out = plain
                /\ (plain.ok /\ ~IsPrefix(plain.v, base.v)) => base.out = Panic
                /\ ~plain.ok => ~base.out.ok
        IN  Check(to_buffer(ctr.v))

\* a buffer was returned although the bytes at the completion of the
\* dictionary content were not a prefix of the reference buffer
C17_Witness ==
    /\ base.some /\ base.out.ok /\ origin = "parse" /\ base.v = file
    /\ ~IsPrefix(AtDictContent(ctr.v).out, base.v)

---------------------------------------------------------------------------
(* C18: variant dispatch never defaults silently.  At the three            *)
(* polymorphic read sites (model, texture, vertex buffer) a discriminant   *)
(* outside the known set never yields an object; when the fields the code  *)
(* reads before it dispatches are readable (the common part of a texture   *)
(* or of a model, nothing for a vertex buffer), the read returns an error  *)
(* value that embeds the raw discriminant.                                 *)

IsTagError(res, tag) ==
    res.st = "error" /\ "tag" \in DOMAIN res /\ res.tag = tag

---------------------------------------------------------------------------
(* C19: typed sub-collection count check.  As claimed: when a model's      *)
(* material count, or its visibility count, disagrees with values_count of *)
(* the dictionary its pointer references, the read fails with an error     *)
(* value (CountMismatch) and returns no model; when the counts agree the   *)
(* dictionary is kept.                                                     *)

\* the count at `at` is followed by a non-null pointer to a readable
\* dictionary whose values_count differs from it
Disagrees(buf, at, kind) ==
    LET Check(dict) == dict.st = "ok" /\ dict.v.values_count # U32At(buf, at)
    IN  /\ U32At(buf, at + 4) # 0
        /\ Check(DictFromReader(buf, PointerReadRelative(buf, at + 4).v.v, kind))

C19_CountMismatch ==
    rd.op = "model" =>
        /\ (Disagrees(rd.buf, rd.pos + 188, "material")
              \/ Disagrees(rd.buf, rd.pos + 204, "visibility"))
             => rd.res.st = "error"
        /\ (rd.res.st = "ok" /\ U32At(rd.buf, rd.pos + 192) # 0)
             => /\ rd.res.v.common.materials.some
                /\ rd.res.v.common.materials.v.values_count = U32At(rd.buf, rd.pos + 188)

---------------------------------------------------------------------------
(* C20: dictionary value back-patch.  As claimed: CgfxDict::to_writer      *)
(* rejects a dictionary with values_count + 1 # len(nodes) and writes      *)
(* nothing; otherwise, when it returns, for every node that has a value    *)
(* the word at the node's value placeholder (node start + 12) holds        *)
(* v - placeholder, v being the offset at which the value's first byte was *)
(* written, so that a relative-pointer read at the placeholder resolves to *)
(* v; nodes without a value keep 0 there.                                  *)

\* the number of bytes a value takes in the output
ValueLen(value) ==
    IF value.some THEN Len(WriteDictValue(NewWriter, value.v).out) ELSE 0

\* where the record of node i starts: after the 12 bytes of the dictionary
\* header and the records and values of the nodes before it
RECURSIVE NodeStart(_, _, _)
NodeStart(nodes, start, i) ==
    IF i = 1 THEN start + 12
    ELSE NodeStart(nodes, start, i - 1) + 16 + ValueLen(nodes[i - 1].value)

\* values_count + 1 # len(nodes), values_count being the u32 it is
CountsDisagree(d) ==
    d.values_count < 0 \/ d.values_count + 1 # Len(d.nodes)

BackPatched(bytes, nodes, start) ==
    \A i \in 1..Len(nodes) :
        LET placeholder == NodeStart(nodes, start, i) + 12
            v == NodeStart(nodes, start, i) + 16
        IN  IF nodes[i].value.some
            THEN /\ U32At(bytes, placeholder) = v - placeholder
                 /\ PointerReadRelative(bytes, placeholder).v = Some(v)
                 /\ nodes[i].value.v.kind = "Image"
                       => /\ U32At(bytes, v) = TexImage
                          /\ Bytes(bytes, v + 4, 4) =
                                 nodes[i].value.v.common.cgfx_object_header.magic
            ELSE U32At(bytes, placeholder) = 0

C20_BackPatch ==
    wr.op = "dict" =>
        /\ CountsDisagree(wr.dict)
              => wr.res.st # "ok" /\ wr.res.out = Zeros(wr.start)
        /\ wr.res.st = "ok" => BackPatched(wr.res.out, wr.dict.nodes, wr.start)

---------------------------------------------------------------------------
(* C21: image pointer resolution.  In every buffer returned by to_buffer,  *)
(* for each Image texture with image data, in dictionary order, the word   *)
(* at its ImageData record + 12 holds I + off - loc, where loc is that     *)
(* word's offset, I the offset just after the 8-byte IMAG header and off   *)
(* the number of image bytes of the textures written before it; the bytes  *)
(* at I + off are that texture's image_bytes, and the IMAG length field is *)
(* the total number of image bytes + 8.                                    *)

HasImage(node) ==
    node.value.some /\ node.value.v.kind = "Image" /\ node.value.v.image.some

\* the image bytes of the textures of nodes 1..k
RECURSIVE ImageBytesUpTo(_, _)
ImageBytesUpTo(nodes, k) ==
    IF k = 0 THEN 0
    ELSE ImageBytesUpTo(nodes, k - 1)
           + (IF HasImage(nodes[k]) THEN Len(nodes[k].value.v.image.v.image_bytes) ELSE 0)

\* the nodes of the textures dictionary of a container
TextureNodesOf(c) == IF c.dicts[2].some THEN c.dicts[2].v.nodes ELSE <<>>

\* where the dictionary of a written container starts
DictStart == TableOffset + 8 * Slots

\* where the ImageData record of node k lies: after the node record, the
\* discriminant, the common part and the pointer word of its texture
ImageRecord(nodes, k) == NodeStart(nodes, DictStart, k) + 16 + 4 + 52 + 4

C21_ImagePointers ==
    out.ok =>
        LET nodes == TextureNodesOf(ctr.v)
            total == ImageBytesUpTo(nodes, Len(nodes))
            I == Len(out.v) - total
        IN  /\ Bytes(out.v, I - 8, 4) = IMAG
            /\ U32At(out.v, I - 4) = total + 8
            /\ \A k \in 1..Len(nodes) :
                  HasImage(nodes[k]) =>
                      LET loc == ImageRecord(nodes, k) + 12
                          off == ImageBytesUpTo(nodes, k - 1)
                          image == nodes[k].value.v.image.v
                      IN  /\ U32At(out.v, loc - 4) = image.buffer_length
                          /\ U32At(out.v, loc) = I + off - loc
                          /\ Bytes(out.v, I + off, Len(image.image_bytes)) = image.image_bytes

\* a buffer was returned for two textures with image data, the second
\* behind the image bytes of the first
C21_Witness ==
    /\ out.ok /\ Len(TextureNodesOf(ctr.v)) = 3
    /\ HasImage(TextureNodesOf(ctr.v)[2]) /\ HasImage(TextureNodesOf(ctr.v)[3])
    /\ ImageBytesUpTo(TextureNodesOf(ctr.v), 2) > 0

---------------------------------------------------------------------------
(* C22: slot back-patch.  When the container has a textures dictionary,    *)
(* to_buffer writes at table slot 1 the pair (len(nodes) - 1,              *)
(* d - (slot_offset + 4)), d being the offset at which the dictionary's    *)
(* magic is emitted, so that the container reader locates the dictionary   *)
(* at d; every other slot stays (0, 0).                                    *)

C22_SlotBackPatch ==
    (out.ok /\ ctr.v.dicts[2].some) =>
        LET textures == ctr.v.dicts[2].v
            slot_offset == TableOffset + 8
            d == DictStart
        IN  /\ Bytes(out.v, d, Len(textures.magic_number)) = textures.magic_number
            /\ SlotCount(out.v, 1) = Len(textures.nodes) - 1
            /\ U32At(out.v, slot_offset + 4) = d - (slot_offset + 4)
            /\ SlotPointer(out.v, 1) = Some(d)
            /\ \A i \in (0..(Slots - 1)) \ {1} :
                  /\ SlotCount(out.v, i) = 0
                  /\ U32At(out.v, TableOffset + 8 * i + 4) = 0

\* a buffer was returned for a container with a textures dictionary of
\* three nodes
C22_Witness ==
    /\ out.ok /\ ctr.v.dicts[2].some
    /\ Len(ctr.v.dicts[2].v.nodes) = 3
    /\ SlotCount(out.v, 1) = 2

---------------------------------------------------------------------------
(* CgfxContainer::to_buffer run statement by statement.  wr holds the      *)
(* writer, the position in the function (pc), the work of the last step    *)
(* (last), the next node of the dictionary loop (k), and the references    *)
(* the running fixup loop has still to visit.  The two fixup loops iterate *)
(* a HashMap, whose order is not specified: every order is a behaviour.    *)

\* the containers written step by step: those parsed from the input files
\* and those built from a single texture under a short name
StepContainers ==
    LET parsed == {AsResult(CgfxContainerNew(in[1])) : in \in Inputs}
        built == {from_single_texture(name, 0, texture, build) :
                      name \in ShortNames, texture \in Textures, build \in Builds}
    IN  {r.v : r \in {x \in parsed \cup built : x.ok}}

Running(pc) == wr.op = "to_buffer" /\ wr.pc = pc

\* the run ends with the panic or the error the writer met
Stopped(w) ==
    [wr EXCEPT !.w = w, !.pc = "done", !.res = IF w.st = "error" THEN Err ELSE Panic]

StartToBuffer ==
    /\ wr = NoWriter
    /\ \E c \in StepContainers :
        wr' = [ op |-> "to_buffer", c |-> c, pc |-> "header", last |-> "none",
                w |-> NewWriter, k |-> 1, refs |-> {}, start |-> 0,
                res |-> NoResult ]
    /\ UNCHANGED <<file, fileKind, ctr, origin, args, out, rd, base>>

\* self.header.write(&mut writer)
StepHeader ==
    /\ Running("header")
    /\ wr' = [wr EXCEPT !.w = Put(@, HeaderBytes(wr.c.header)),
                         !.pc = "table", !.last = "header"]
    /\ UNCHANGED <<file, fileKind, ctr, origin, args, out, rd, base>>

\* the sixteen zero pairs
StepTable ==
    /\ Running("table")
    /\ wr' = [wr EXCEPT !.w = Put(@, Zeros(8 * Slots)),
                         !.pc = "content", !.last = "table"]
    /\ UNCHANGED <<file, fileKind, ctr, origin, args, out, rd, base>>

\* the slot of the textures dictionary and the head of CgfxDict::to_writer;
\* without a dictionary the string fixups are next
StepDict ==
    /\ Running("content")
    /\ LET textures == wr.c.dicts[2]
            reference_offset == TableOffset + 8
            count == Len(textures.v.nodes) - 1
            relative_offset == Len(wr.w.out) - (reference_offset + 4)
            w1 == [wr.w EXCEPT !.out = write_at_pointer(
                        write_at_pointer(@, reference_offset, count),
                        reference_offset + 4, relative_offset)]
            w2 == Put(w1, textures.v.magic_number \o U32LE(textures.v.tree_length)
                              \o U32LE(textures.v.values_count))
       IN  wr' = IF ~textures.some
                 THEN [wr EXCEPT !.pc = "string_fixups", !.refs = wr.w.string_references,
                                 !.start = Len(wr.w.out)]
                 ELSE IF count < 0 \/ ~NodeCountAsserted(textures.v, TRUE)
                 THEN Stopped(Fail(wr.w, "panic"))
                 ELSE [wr EXCEPT !.w = w2, !.pc = "nodes", !.k = 1, !.last = "component"]
    /\ UNCHANGED <<file, fileKind, ctr, origin, args, out, rd, base>>

\* one iteration of the loop of CgfxDict::to_writer: node.to_writer and
\* write_dict_value; behind the last node the string fixups are next
StepNode ==
    /\ Running("nodes")
    /\ LET nodes == wr.c.dicts[2].v.nodes
            w1 == DictWriteNode(wr.w, nodes[wr.k])
       IN  wr' = IF wr.k > Len(nodes)
                 THEN [wr EXCEPT !.pc = "string_fixups", !.refs = wr.w.string_references,
                                 !.start = Len(wr.w.out)]
                 ELSE IF w1.st # "ok" THEN [Stopped(w1) EXCEPT !.last = "component"]
                 ELSE [wr EXCEPT !.w = w1, !.k = @ + 1, !.last = "component"]
    /\ UNCHANGED <<file, fileKind, ctr, origin, args, out, rd, base>>

\* a string fixup taken while the dictionary loop is still running
StepStringFixupMutEarly ==
    /\ wr.op = "to_buffer" /\ wr.pc \in {"nodes", "string_fixups"}
    /\ \E ref \in wr.w.string_references :
        wr' = [wr EXCEPT !.w = ApplyStringReference(@, ref, wr.start),
                         !.refs = @ \ {ref}, !.last = "string_fixup"]
    /\ UNCHANGED <<file, fileKind, ctr, origin, args, out, rd, base>>

\* a string fixup that leaves the writer behind the word it patched, the
\* next one resolving against that position
StepStringFixupMutMoved ==
    /\ Running("string_fixups")
    /\ \E ref \in wr.refs :
        wr' = [wr EXCEPT !.w = ApplyStringReference(@, ref, wr.start),
                         !.refs = @ \ {ref}, !.last = "string_fixup",
                         !.start = ref[1] + 4]
    /\ UNCHANGED <<file, fileKind, ctr, origin, args, out, rd, base>>

\* one iteration of the loop over ctx.string_references
StepStringFixup ==
    /\ Running("string_fixups")
    /\ \E ref \in wr.refs :
        wr' = [wr EXCEPT !.w = ApplyStringReference(@, ref, wr.start),
                         !.refs = @ \ {ref}, !.last = "string_fixup"]
    /\ UNCHANGED <<file, fileKind, ctr, origin, args, out, rd, base>>

\* writer.write_all(ctx.string_section.as_bytes()), behind the loop
StepStrings ==
    /\ Running("string_fixups") /\ wr.refs = {}
    /\ wr' = [wr EXCEPT !.w = Put(@, wr.w.string_section),
                         !.pc = "padding", !.last = "strings"]
    /\ UNCHANGED <<file, fileKind, ctr, origin, args, out, rd, base>>

\* the padding, then image_section_offset is taken
StepPadding ==
    /\ Running("padding")
    /\ LET w1 == WritePadding(wr.w)
       IN  wr' = [wr EXCEPT !.w = w1, !.pc = "image_fixups", !.last = "padding",
                            !.refs = w1.image_references, !.start = Len(w1.out) + 8]
    /\ UNCHANGED <<file, fileKind, ctr, origin, args, out, rd, base>>

\* one iteration of the loop over ctx.image_references
StepImageFixup ==
    /\ Running("image_fixups")
    /\ \E ref \in wr.refs :
        wr' = [wr EXCEPT !.w.out = write_at_pointer(@, ref[1], (wr.start + ref[2]) - ref[1]),
                         !.refs = @ \ {ref}, !.last = "image_fixup"]
    /\ UNCHANGED <<file, fileKind, ctr, origin, args, out, rd, base>>

\* "IMAG", the length and the image bytes, behind the loop
StepImageSection ==
    /\ Running("image_fixups") /\ wr.refs = {}
    /\ wr' = [wr EXCEPT !.w = Put(@, IMAG \o U32LE(Len(wr.w.image_section) + 8)
                                        \o wr.w.image_section),
                         !.pc = "assert", !.last = "image_section"]
    /\ UNCHANGED <<file, fileKind, ctr, origin, args, out, rd, base>>

\* the assertion on the written length and the return
StepReturn ==
    /\ Running("assert")
    /\ wr' = [wr EXCEPT !.pc = "done",
                         !.res = IF LengthAsserted(wr.w, wr.c) THEN Ok(wr.w.out) ELSE Panic]
    /\ UNCHANGED <<file, fileKind, ctr, origin, args, out, rd, base>>

NextSteps ==
    \/ StartToBuffer \/ StepHeader \/ StepTable \/ StepDict \/ StepNode
    \/ StepStringFixup \/ StepStrings \/ StepPadding \/ StepImageFixup
    \/ StepImageSection \/ StepReturn

SpecSteps == Init /\ [][NextSteps]_vars

---------------------------------------------------------------------------
(* C23: write phase ordering.  In every run of to_buffer the fixups        *)
(* (string references, then image references) start only after the last    *)
(* component writer (dictionary, node, texture) has finished, no component *)
(* writer runs after the first fixup, and the emission order is header,    *)
(* slot table, main content, string section, padding, image section.       *)

\* the place of a piece of work in the claimed order
PhaseRank(work) ==
    CASE work = "none" -> 0
      [] work = "header" -> 1
      [] work = "table" -> 2
      [] work = "component" -> 3
      [] work = "string_fixup" -> 4
      [] work = "strings" -> 5
      [] work = "padding" -> 6
      [] work = "image_fixup" -> 7
      [] work = "image_section" -> 8

\* a fixup rewrites a word in place, every other step only appends
StepOrdered ==
    (wr.op = "to_buffer" /\ wr'.op = "to_buffer") =>
        /\ PhaseRank(wr'.last) >= PhaseRank(wr.last)
        /\ IF wr'.last \in {"string_fixup", "image_fixup"} /\ wr' # wr /\ wr'.refs # wr.refs
           THEN Len(wr'.w.out) = Len(wr.w.out)
           ELSE /\ Len(wr'.w.out) >= Len(wr.w.out)
                /\ \/ wr'.last = "component"
                   \/ SubSeq(wr'.w.out, 1, Len(wr.w.out)) = wr.w.out

C23_PhaseOrdering == [][StepOrdered]_vars

\* a run that went through both fixup loops and emitted the image section
C23_Witness ==
    /\ wr.op = "to_buffer" /\ wr.last = "image_section"
    /\ Cardinality(wr.w.string_references) >= 2
    /\ wr.w.image_references # {}

---------------------------------------------------------------------------
(* A WriteContext receiving a sequence of add_string calls.                *)

\* the longest sequence of calls
MaxAdds == 3

\* the strings added: empty, one and two bytes, one holding a NUL
AddedStrings == {<<>>, <<97>>, <<98>>, <<97, 98>>, <<98, 97>>, <<98, 0>>}

\* ctx.add_string(s), on a new context or on the one of the calls before
AddString ==
    /\ wr = NoWriter \/ (wr.op = "strings" /\ wr.n < MaxAdds)
    /\ \E string \in AddedStrings :
        LET ctx == IF wr = NoWriter THEN NewWriter ELSE wr.w
        IN  wr' = [ op |-> "strings", before |-> ctx, s |-> string,
                    w |-> add_string(ctx, string),
                    n |-> IF wr = NoWriter THEN 1 ELSE wr.n + 1 ]
    /\ UNCHANGED <<file, fileKind, ctr, origin, args, out, rd, base>>

NextStrings == AddString

SpecStrings == Init /\ [][NextStrings]_vars

---------------------------------------------------------------------------
(* C24: string section dedup.  add_string(s) leaves string_section         *)
(* unchanged when s already occurs in it as a substring, and otherwise     *)
(* appends s followed by exactly one NUL; adding the same string twice     *)
(* equals adding it once, and after any sequence of calls a non-empty      *)
(* string_section ends with NUL.                                           *)

\* s occurs in hay as a substring
OccursIn(hay, s) ==
    \E i \in 0..(Len(hay) - Len(s)) : SubSeq(hay, i + 1, i + Len(s)) = s

C24_StringDedup ==
    wr.op = "strings" =>
        LET section == wr.before.string_section
            after == wr.w.string_section
        IN  /\ OccursIn(section, wr.s) => after = section
            /\ ~OccursIn(section, wr.s) => after = section \o wr.s \o <<0>>
            /\ add_string(wr.w, wr.s).string_section = after
            /\ after # <<>> => after[Len(after)] = 0
            /\ wr.w.out = wr.before.out
            /\ wr.w.string_references = wr.before.string_references

\* the string of the last call lay inside a longer entry of the section,
\* and the call left the section as it was
C24_Witness ==
    /\ wr.op = "strings" /\ wr.n >= 2
    /\ wr.s = <<98>>
    /\ wr.before.string_section = <<97, 98, 0>>
    /\ wr.w.string_section = <<97, 98, 0>>

---------------------------------------------------------------------------
(* C25: string reference resolution.  In every buffer returned by          *)
(* to_buffer, for every registered name (dictionary node names and texture *)
(* object-header names) the relative pointer written at its placeholder    *)
(* resolves to an offset inside the string section at which the            *)
(* NUL-terminated string read equals that name exactly, also when a name   *)
(* is a prefix or an inner substring of another registered name.           *)

\* the relative pointer at loc leads into lo..hi, to the string name
ResolvesTo(buf, loc, name, lo, hi) ==
    LET target == loc + U32At(buf, loc)
    IN  /\ lo <= target /\ target <= hi
        /\ read_string(buf, target).st = "ok"
        /\ read_string(buf, target).v = name

\* the name of the object header of the texture of a node, if it has one
HeaderNameOf(node) ==
    IF node.value.some /\ node.value.v.kind # "unit"
    THEN node.value.v.common.cgfx_object_header.name
    ELSE None

C25_StringResolution ==
    out.ok =>
        LET nodes == TextureNodesOf(ctr.v)
            lo == NodeStart(nodes, DictStart, Len(nodes) + 1) - 12
            hi == StringsEnd(ctr.v)
        IN  \A k \in 1..Len(nodes) :
              LET record == NodeStart(nodes, DictStart, k)
              IN  /\ nodes[k].name.some =>
                        ResolvesTo(out.v, record + 8, nodes[k].name.v, lo, hi)
                  /\ HeaderNameOf(nodes[k]).some =>
                        ResolvesTo(out.v, record + 16 + 4 + 8, HeaderNameOf(nodes[k]).v, lo, hi)

---------------------------------------------------------------------------
(* C26: dictionary write/read layout agreement.  In the bytes emitted by   *)
(* CgfxDict::to_writer the 16-byte record of node k starts at              *)
(* dict_start + 12 + 16 * k for every k, where CgfxDict::from_reader reads *)
(* node k; from_reader applied to the emitted bytes returns the same node  *)
(* sequence (reference bits, indices, value presence), for dictionaries    *)
(* with any number of valued nodes, two or more included.                  *)

\* what the values of a dictionary are read as
KindOf(d) ==
    IF \E k \in 1..Len(d.nodes) : d.nodes[k].value.some /\ d.nodes[k].value.v.kind # "unit"
    THEN "texture" ELSE "unit"

\* the first eight bytes of the record of a node
RecordHead(node) ==
    U32LE(node.reference_bit) \o U16LE(node.left_node_index) \o U16LE(node.right_node_index)

\* the record of node k (counted from 0) lies at dict_start + 12 + 16 * k
RecordsContiguous(buf, d, dict_start) ==
    \A k \in 0..(Len(d.nodes) - 1) :
        /\ Len(buf) >= dict_start + 12 + 16 * k + 16
        /\ Bytes(buf, dict_start + 12 + 16 * k, 8) = RecordHead(d.nodes[k + 1])

\* the nodes read agree with those written in what the record holds
SameNodes(read, written) ==
    /\ Len(read) = Len(written)
    /\ \A k \in 1..Len(written) :
          /\ read[k].reference_bit = written[k].reference_bit
          /\ read[k].left_node_index = written[k].left_node_index
          /\ read[k].right_node_index = written[k].right_node_index
          /\ read[k].value.some = written[k].value.some

C26_LayoutAgreement ==
    (wr.op = "dict" /\ wr.res.st = "ok" /\ ~CountsDisagree(wr.dict)) =>
        LET read == DictFromReader(wr.res.out, wr.start, KindOf(wr.dict))
        IN  /\ RecordsContiguous(wr.res.out, wr.dict, wr.start)
            /\ read.st = "ok"
            /\ SameNodes(read.v.nodes, wr.dict.nodes)

---------------------------------------------------------------------------
(* C27: the single-texture container is serializable.  For every name and  *)
(* every Image texture, to_buffer on from_single_texture(name, r, texture) *)
(* returns a buffer: the emitted length equals the header's file_length =  *)
(* 0x180 + texture.size() whatever the length of the node name and of the  *)
(* texture's object-header name, the string section plus padding always    *)
(* ending at offset 0x178.                                                 *)

\* to_buffer ran on the container from_single_texture returned for an
\* Image texture
SingleWritten ==
    /\ origin = "single" /\ ctr.ok /\ out # NoResult
    /\ args.texture.kind = "Image"

C27_SingleSerializable ==
    SingleWritten =>
        /\ out.ok
        /\ Len(out.v) = 384 + TextureSize(args.texture)
        /\ Len(WritePadding(WriteStrings(WriteMainContent(
                WriteHeaderAndTable(ctr.v, None), ctr.v, TableOffset))).out) = 376

---------------------------------------------------------------------------
(* C28: from_single_texture is total.  For every texture, one whose        *)
(* object-header name is absent or empty (name_len = 0) included, it       *)
(* returns a container: reference_bit = (name_len << 3) - 2 is computed    *)
(* as a 32-bit unsigned value with no underflow and no failed conversion.  *)
C28_SingleTotal ==
    (origin = "single" /\ args.set) =>
        /\ ctr.ok
        /\ LET bit == ctr.v.dicts[2].v.nodes[2].reference_bit
           IN  bit = SingleNameLen(args.name, args.texture) * 8 - 2 /\ bit >= 0

---------------------------------------------------------------------------
(* C29: serialization is deterministic.  The buffer returned by to_buffer  *)
(* does not depend on the order in which the string_references and         *)
(* image_references maps are iterated: the registered patch locations are  *)
(* pairwise distinct, non-overlapping 4-byte words, each fixup writes only *)
(* its own word, and two runs on equal containers return equal buffers.    *)

\* the locations registered for a fixup
PatchLocations(w) ==
    {ref[1] : ref \in w.string_references} \cup {ref[1] : ref \in w.image_references}

\* the buffer a fixup loop has reached is the one any order reaches after
\* the same references: the remaining ones applied in a fixed order give
\* the buffer of the whole loop
LoopConfluent ==
    CASE wr.pc = "string_fixups" ->
            ApplyStringReferences(wr.w, wr.refs, wr.start).out
              = ApplyStringReferences(
                    [wr.w EXCEPT !.out = WriteMainContent(
                         WriteHeaderAndTable(wr.c, None), wr.c, TableOffset).out],
                    wr.w.string_references, wr.start).out
      [] wr.pc = "image_fixups" ->
            \A ref \in wr.w.image_references \ wr.refs :
                U32At(wr.w.out, ref[1]) = (wr.start + ref[2]) - ref[1]
      [] OTHER -> TRUE

C29_Deterministic ==
    wr.op = "to_buffer" =>
        /\ \A a, b \in PatchLocations(wr.w) : a # b => (a + 4 <= b \/ b + 4 <= a)
        /\ Cardinality(PatchLocations(wr.w))
              = Cardinality(wr.w.string_references) + Cardinality(wr.w.image_references)
        /\ LoopConfluent
        /\ wr.pc = "done" => wr.res = to_buffer(wr.c)

\* a run returned the buffer of a container with three string references
\* and two image references, which the loops visit in several orders
C29_Witness ==
    /\ wr.op = "to_buffer" /\ wr.pc = "done" /\ wr.res.ok
    /\ Cardinality(wr.w.string_references) >= 3
    /\ Cardinality(wr.w.image_references) >= 2

---------------------------------------------------------------------------
(* A texture written by CgfxTexture::to_writer and read back by            *)
(* CgfxTexture::from_reader at the offset it was written at.               *)

\* what follows the texture in the buffer: nothing, 32 zero bytes, or an
\* ImageData record of no bytes whose buffer pointer is not null
Tails == {<<>>, Zeros(32), write_at_pointer(ImageDataBytes(MkImage(<<>>)), 12, 4)}

\* texture.to_writer(..) at offset start, then from_reader at start
WriteReadTexture ==
    /\ wr = NoWriter
    /\ \E texture \in Textures, start \in {0, 156}, tail \in Tails :
        LET res == TextureToWriter(Put(NewWriter, Zeros(start)), texture)
        IN  wr' = [ op |-> "texture", texture |-> texture, start |-> start,
                    tail |-> tail, res |-> res,
                    back |-> IF res.st = "ok"
                             THEN TextureFromReader(res.out \o tail, start)
                             ELSE Bad(res.st, start) ]
    /\ UNCHANGED <<file, fileKind, ctr, origin, args, out, rd, base>>

NextTexture == WriteReadTexture

SpecTexture == Init /\ [][NextTexture]_vars

---------------------------------------------------------------------------
(* C30: an Image texture without image data round-trips.  A texture        *)
(* Image(common, None) written by CgfxTexture::to_writer and read back by  *)
(* CgfxTexture::from_reader at the same offset yields Image(_, None): the  *)
(* image-data pointer word emitted for it is read back as null.            *)
C30_NoImageRoundTrip ==
    (wr.op = "texture" /\ wr.texture.kind = "Image" /\ ~wr.texture.image.some) =>
        /\ wr.res.st = "ok"
        /\ wr.back.st = "ok"
        /\ wr.back.v.kind = "Image"
        /\ wr.back.v.image = None

====
